---- MODULE Spec2Model ----
(***************************************************************************)
(* Model of the CDR classification and multi-source aggregation engine of  *)
(* billing_reports.py and of the stand-alone call_ratio.py.                *)
(*                                                                         *)
(* Strings are sequences of one-character strings, so that slicing,        *)
(* filtering and splitting are computed as the Python code computes them.  *)
(* State codes and jurisdiction labels, which the code only compares, are  *)
(* plain strings.                                                          *)
(* Seconds and costs are binary floating-point numbers whose operations    *)
(* round as Python's do, to a significand of FloatPrecision bits.          *)
(***************************************************************************)
EXTENDS Integers, Sequences, FiniteSets, TLC

(***************************************************************************)
(* Characters and string helpers                                           *)
(***************************************************************************)
Digits == {"0", "1", "2", "3", "4", "5", "6", "7", "8", "9"}

\* c.isdigit()
IsDigit(c) == c \in Digits

\* str.strip(): leading and trailing whitespace removed
RECURSIVE LStrip(_)
LStrip(s) == IF s # <<>> /\ Head(s) = " " THEN LStrip(Tail(s)) ELSE s

RECURSIVE RStrip(_)
RStrip(s) ==
    IF s # <<>> /\ s[Len(s)] = " " THEN RStrip(SubSeq(s, 1, Len(s) - 1)) ELSE s

Strip(s) == RStrip(LStrip(s))

LowerCase ==
    "A" :> "a" @@ "B" :> "b" @@ "C" :> "c" @@ "D" :> "d" @@ "E" :> "e" @@ "F" :> "f" @@ "G" :> "g" @@
    "H" :> "h" @@ "I" :> "i" @@ "J" :> "j" @@ "K" :> "k" @@ "L" :> "l" @@ "M" :> "m" @@ "N" :> "n" @@
    "O" :> "o" @@ "P" :> "p" @@ "Q" :> "q" @@ "R" :> "r" @@ "S" :> "s" @@ "T" :> "t" @@ "U" :> "u" @@
    "V" :> "v" @@ "W" :> "w" @@ "X" :> "x" @@ "Y" :> "y" @@ "Z" :> "z"

\* str.lower()
Lower(s) == [i \in 1..Len(s) |-> IF s[i] \in DOMAIN LowerCase THEN LowerCase[s[i]] ELSE s[i]]

(***************************************************************************)
(* Static lookup data                                                      *)
(***************************************************************************)
NPA_TO_STATE ==
    (  (<<"2","0","5">> :> "AL" @@ <<"2","5","1">> :> "AL" @@ <<"2","5","6">> :> "AL" @@ <<"3","3","4">> :> "AL")
    @@ (<<"9","3","8">> :> "AL" @@ <<"9","0","7">> :> "AK" @@ <<"4","8","0">> :> "AZ" @@ <<"5","2","0">> :> "AZ")
    @@ (<<"6","0","2">> :> "AZ" @@ <<"6","2","3">> :> "AZ" @@ <<"9","2","8">> :> "AZ" @@ <<"4","7","9">> :> "AR")
    @@ (<<"5","0","1">> :> "AR" @@ <<"8","7","0">> :> "AR" @@ <<"2","0","9">> :> "CA" @@ <<"2","1","3">> :> "CA")
    @@ (<<"3","1","0">> :> "CA" @@ <<"3","2","3">> :> "CA" @@ <<"3","4","1">> :> "CA" @@ <<"4","0","8">> :> "CA")
    @@ (<<"4","1","5">> :> "CA" @@ <<"4","2","4">> :> "CA" @@ <<"4","4","2">> :> "CA" @@ <<"5","1","0">> :> "CA")
    @@ (<<"5","3","0">> :> "CA" @@ <<"5","5","9">> :> "CA" @@ <<"5","6","2">> :> "CA" @@ <<"6","1","9">> :> "CA")
    @@ (<<"6","2","6">> :> "CA" @@ <<"6","2","8">> :> "CA" @@ <<"6","5","0">> :> "CA" @@ <<"6","5","7">> :> "CA")
    @@ (<<"6","6","1">> :> "CA" @@ <<"6","6","9">> :> "CA" @@ <<"7","0","7">> :> "CA" @@ <<"7","1","4">> :> "CA")
    @@ (<<"7","4","7">> :> "CA" @@ <<"7","6","0">> :> "CA" @@ <<"8","0","5">> :> "CA" @@ <<"8","1","8">> :> "CA")
    @@ (<<"8","2","0">> :> "CA" @@ <<"8","3","1">> :> "CA" @@ <<"8","4","0">> :> "CA" @@ <<"8","5","8">> :> "CA")
    @@ (<<"9","0","9">> :> "CA" @@ <<"9","1","6">> :> "CA" @@ <<"9","2","5">> :> "CA" @@ <<"9","4","9">> :> "CA") )
    @@
    (  (<<"9","5","1">> :> "CA" @@ <<"3","0","3">> :> "CO" @@ <<"7","1","9">> :> "CO" @@ <<"7","2","0">> :> "CO")
    @@ (<<"9","7","0">> :> "CO" @@ <<"9","8","3">> :> "CO" @@ <<"2","0","3">> :> "CT" @@ <<"4","7","5">> :> "CT")
    @@ (<<"8","6","0">> :> "CT" @@ <<"9","5","9">> :> "CT" @@ <<"3","0","2">> :> "DE" @@ <<"2","3","9">> :> "FL")
    @@ (<<"3","0","5">> :> "FL" @@ <<"3","2","1">> :> "FL" @@ <<"3","5","2">> :> "FL" @@ <<"3","8","6">> :> "FL")
    @@ (<<"4","0","7">> :> "FL" @@ <<"5","6","1">> :> "FL" @@ <<"7","2","7">> :> "FL" @@ <<"7","5","4">> :> "FL")
    @@ (<<"7","7","2">> :> "FL" @@ <<"7","8","6">> :> "FL" @@ <<"8","1","3">> :> "FL" @@ <<"8","5","0">> :> "FL")
    @@ (<<"8","6","3">> :> "FL" @@ <<"9","0","4">> :> "FL" @@ <<"9","4","1">> :> "FL" @@ <<"9","5","4">> :> "FL")
    @@ (<<"2","2","9">> :> "GA" @@ <<"4","0","4">> :> "GA" @@ <<"4","7","0">> :> "GA" @@ <<"4","7","8">> :> "GA")
    @@ (<<"6","7","8">> :> "GA" @@ <<"7","0","6">> :> "GA" @@ <<"7","6","2">> :> "GA" @@ <<"7","7","0">> :> "GA")
    @@ (<<"9","1","2">> :> "GA" @@ <<"9","4","3">> :> "GA" @@ <<"8","0","8">> :> "HI" @@ <<"2","0","8">> :> "ID")
    @@ (<<"9","8","6">> :> "ID" @@ <<"2","1","7">> :> "IL" @@ <<"2","2","4">> :> "IL" @@ <<"3","0","9">> :> "IL")
    @@ (<<"3","1","2">> :> "IL" @@ <<"3","3","1">> :> "IL" @@ <<"6","1","8">> :> "IL" @@ <<"6","3","0">> :> "IL") )
    @@
    (  (<<"7","0","8">> :> "IL" @@ <<"7","7","3">> :> "IL" @@ <<"7","7","9">> :> "IL" @@ <<"8","1","5">> :> "IL")
    @@ (<<"8","4","7">> :> "IL" @@ <<"8","7","2">> :> "IL" @@ <<"2","1","9">> :> "IN" @@ <<"2","6","0">> :> "IN")
    @@ (<<"3","1","7">> :> "IN" @@ <<"4","6","3">> :> "IN" @@ <<"5","7","4">> :> "IN" @@ <<"7","6","5">> :> "IN")
    @@ (<<"8","1","2">> :> "IN" @@ <<"9","3","0">> :> "IN" @@ <<"3","1","9">> :> "IA" @@ <<"5","1","5">> :> "IA")
    @@ (<<"5","6","3">> :> "IA" @@ <<"6","4","1">> :> "IA" @@ <<"7","1","2">> :> "IA" @@ <<"3","1","6">> :> "KS")
    @@ (<<"6","2","0">> :> "KS" @@ <<"7","8","5">> :> "KS" @@ <<"9","1","3">> :> "KS" @@ <<"2","7","0">> :> "KY")
    @@ (<<"3","6","4">> :> "KY" @@ <<"5","0","2">> :> "KY" @@ <<"6","0","6">> :> "KY" @@ <<"8","5","9">> :> "KY")
    @@ (<<"2","2","5">> :> "LA" @@ <<"3","1","8">> :> "LA" @@ <<"3","3","7">> :> "LA" @@ <<"5","0","4">> :> "LA")
    @@ (<<"9","8","5">> :> "LA" @@ <<"2","0","7">> :> "ME" @@ <<"2","4","0">> :> "MD" @@ <<"3","0","1">> :> "MD")
    @@ (<<"4","1","0">> :> "MD" @@ <<"4","4","3">> :> "MD" @@ <<"6","6","7">> :> "MD" @@ <<"3","3","9">> :> "MA")
    @@ (<<"3","5","1">> :> "MA" @@ <<"4","1","3">> :> "MA" @@ <<"5","0","8">> :> "MA" @@ <<"6","1","7">> :> "MA")
    @@ (<<"7","7","4">> :> "MA" @@ <<"7","8","1">> :> "MA" @@ <<"8","5","7">> :> "MA" @@ <<"9","7","8">> :> "MA") )
    @@
    (  (<<"2","3","1">> :> "MI" @@ <<"2","4","8">> :> "MI" @@ <<"2","6","9">> :> "MI" @@ <<"3","1","3">> :> "MI")
    @@ (<<"5","1","7">> :> "MI" @@ <<"5","8","6">> :> "MI" @@ <<"6","1","6">> :> "MI" @@ <<"7","3","4">> :> "MI")
    @@ (<<"8","1","0">> :> "MI" @@ <<"9","0","6">> :> "MI" @@ <<"9","4","7">> :> "MI" @@ <<"9","8","9">> :> "MI")
    @@ (<<"2","1","8">> :> "MN" @@ <<"3","2","0">> :> "MN" @@ <<"5","0","7">> :> "MN" @@ <<"6","1","2">> :> "MN")
    @@ (<<"6","5","1">> :> "MN" @@ <<"7","6","3">> :> "MN" @@ <<"9","5","2">> :> "MN" @@ <<"2","2","8">> :> "MS")
    @@ (<<"6","0","1">> :> "MS" @@ <<"6","6","2">> :> "MS" @@ <<"7","6","9">> :> "MS" @@ <<"3","1","4">> :> "MO")
    @@ (<<"4","1","7">> :> "MO" @@ <<"5","7","3">> :> "MO" @@ <<"6","3","6">> :> "MO" @@ <<"6","6","0">> :> "MO")
    @@ (<<"8","1","6">> :> "MO" @@ <<"9","7","5">> :> "MO" @@ <<"4","0","6">> :> "MT" @@ <<"3","0","8">> :> "NE")
    @@ (<<"4","0","2">> :> "NE" @@ <<"5","3","1">> :> "NE" @@ <<"7","0","2">> :> "NV" @@ <<"7","2","5">> :> "NV")
    @@ (<<"7","7","5">> :> "NV" @@ <<"6","0","3">> :> "NH" @@ <<"2","0","1">> :> "NJ" @@ <<"5","5","1">> :> "NJ")
    @@ (<<"6","0","9">> :> "NJ" @@ <<"6","4","0">> :> "NJ" @@ <<"7","3","2">> :> "NJ" @@ <<"8","4","8">> :> "NJ")
    @@ (<<"8","5","6">> :> "NJ" @@ <<"8","6","2">> :> "NJ" @@ <<"9","0","8">> :> "NJ" @@ <<"9","7","3">> :> "NJ") )
    @@
    (  (<<"5","0","5">> :> "NM" @@ <<"5","7","5">> :> "NM" @@ <<"2","1","2">> :> "NY" @@ <<"3","1","5">> :> "NY")
    @@ (<<"3","3","2">> :> "NY" @@ <<"3","4","7">> :> "NY" @@ <<"5","1","6">> :> "NY" @@ <<"5","1","8">> :> "NY")
    @@ (<<"5","8","5">> :> "NY" @@ <<"6","0","7">> :> "NY" @@ <<"6","3","1">> :> "NY" @@ <<"6","4","6">> :> "NY")
    @@ (<<"6","8","0">> :> "NY" @@ <<"7","1","6">> :> "NY" @@ <<"7","1","8">> :> "NY" @@ <<"8","3","8">> :> "NY")
    @@ (<<"8","4","5">> :> "NY" @@ <<"9","1","4">> :> "NY" @@ <<"9","1","7">> :> "NY" @@ <<"9","2","9">> :> "NY")
    @@ (<<"9","3","4">> :> "NY" @@ <<"2","5","2">> :> "NC" @@ <<"3","3","6">> :> "NC" @@ <<"7","0","4">> :> "NC")
    @@ (<<"7","4","3">> :> "NC" @@ <<"8","2","8">> :> "NC" @@ <<"9","1","0">> :> "NC" @@ <<"9","1","9">> :> "NC")
    @@ (<<"9","8","0">> :> "NC" @@ <<"9","8","4">> :> "NC" @@ <<"7","0","1">> :> "ND" @@ <<"2","1","6">> :> "OH")
    @@ (<<"2","2","0">> :> "OH" @@ <<"2","3","4">> :> "OH" @@ <<"2","8","3">> :> "OH" @@ <<"3","3","0">> :> "OH")
    @@ (<<"3","8","0">> :> "OH" @@ <<"4","1","9">> :> "OH" @@ <<"4","4","0">> :> "OH" @@ <<"5","1","3">> :> "OH")
    @@ (<<"5","6","7">> :> "OH" @@ <<"6","1","4">> :> "OH" @@ <<"7","4","0">> :> "OH" @@ <<"9","3","7">> :> "OH")
    @@ (<<"4","0","5">> :> "OK" @@ <<"5","3","9">> :> "OK" @@ <<"5","8","0">> :> "OK" @@ <<"9","1","8">> :> "OK") )
    @@
    (  (<<"4","5","8">> :> "OR" @@ <<"5","0","3">> :> "OR" @@ <<"5","4","1">> :> "OR" @@ <<"9","7","1">> :> "OR")
    @@ (<<"2","1","5">> :> "PA" @@ <<"2","2","3">> :> "PA" @@ <<"2","6","7">> :> "PA" @@ <<"2","7","2">> :> "PA")
    @@ (<<"4","1","2">> :> "PA" @@ <<"4","4","5">> :> "PA" @@ <<"4","8","4">> :> "PA" @@ <<"5","7","0">> :> "PA")
    @@ (<<"5","8","2">> :> "PA" @@ <<"6","1","0">> :> "PA" @@ <<"7","1","7">> :> "PA" @@ <<"7","2","4">> :> "PA")
    @@ (<<"8","1","4">> :> "PA" @@ <<"8","3","5">> :> "PA" @@ <<"8","7","8">> :> "PA" @@ <<"4","0","1">> :> "RI")
    @@ (<<"8","0","3">> :> "SC" @@ <<"8","3","9">> :> "SC" @@ <<"8","4","3">> :> "SC" @@ <<"8","5","4">> :> "SC")
    @@ (<<"8","6","4">> :> "SC" @@ <<"6","0","5">> :> "SD" @@ <<"4","2","3">> :> "TN" @@ <<"6","1","5">> :> "TN")
    @@ (<<"6","2","9">> :> "TN" @@ <<"7","3","1">> :> "TN" @@ <<"8","6","5">> :> "TN" @@ <<"9","0","1">> :> "TN")
    @@ (<<"9","3","1">> :> "TN" @@ <<"2","1","0">> :> "TX" @@ <<"2","1","4">> :> "TX" @@ <<"2","5","4">> :> "TX")
    @@ (<<"2","8","1">> :> "TX" @@ <<"3","2","5">> :> "TX" @@ <<"3","4","6">> :> "TX" @@ <<"3","6","1">> :> "TX")
    @@ (<<"4","0","9">> :> "TX" @@ <<"4","3","0">> :> "TX" @@ <<"4","3","2">> :> "TX" @@ <<"4","6","9">> :> "TX")
    @@ (<<"5","1","2">> :> "TX" @@ <<"6","8","2">> :> "TX" @@ <<"7","1","3">> :> "TX" @@ <<"7","2","6">> :> "TX") )
    @@
    (  (<<"7","3","7">> :> "TX" @@ <<"8","0","6">> :> "TX" @@ <<"8","1","7">> :> "TX" @@ <<"8","3","0">> :> "TX")
    @@ (<<"8","3","2">> :> "TX" @@ <<"9","0","3">> :> "TX" @@ <<"9","1","5">> :> "TX" @@ <<"9","3","6">> :> "TX")
    @@ (<<"9","4","0">> :> "TX" @@ <<"9","5","6">> :> "TX" @@ <<"9","7","2">> :> "TX" @@ <<"9","7","9">> :> "TX")
    @@ (<<"3","8","5">> :> "UT" @@ <<"4","3","5">> :> "UT" @@ <<"8","0","1">> :> "UT" @@ <<"8","0","2">> :> "VT")
    @@ (<<"2","7","6">> :> "VA" @@ <<"4","3","4">> :> "VA" @@ <<"5","4","0">> :> "VA" @@ <<"5","7","1">> :> "VA")
    @@ (<<"7","0","3">> :> "VA" @@ <<"7","5","7">> :> "VA" @@ <<"8","0","4">> :> "VA" @@ <<"8","2","6">> :> "VA")
    @@ (<<"9","4","8">> :> "VA" @@ <<"2","0","6">> :> "WA" @@ <<"2","5","3">> :> "WA" @@ <<"3","6","0">> :> "WA")
    @@ (<<"4","2","5">> :> "WA" @@ <<"5","0","9">> :> "WA" @@ <<"5","6","4">> :> "WA" @@ <<"2","0","2">> :> "DC")
    @@ (<<"3","0","4">> :> "WV" @@ <<"6","8","1">> :> "WV" @@ <<"2","6","2">> :> "WI" @@ <<"2","7","4">> :> "WI")
    @@ (<<"4","1","4">> :> "WI" @@ <<"5","3","4">> :> "WI" @@ <<"6","0","8">> :> "WI" @@ <<"7","1","5">> :> "WI")
    @@ (<<"9","2","0">> :> "WI" @@ <<"3","0","7">> :> "WY" @@ <<"3","4","0">> :> "VI" @@ <<"6","7","1">> :> "GU")
    @@ (<<"6","8","4">> :> "AS" @@ <<"7","8","7">> :> "PR" @@ <<"9","3","9">> :> "PR" @@ <<"6","7","0">> :> "MP") )

TOLL_FREE ==
    { <<"8","0","0">>, <<"8","3","3">>, <<"8","4","4">>, <<"8","5","5">>,
      <<"8","6","6">>, <<"8","7","7">>, <<"8","8","8">> }

\* dict.get(key, "")
NpaGet(ac) == IF ac \in DOMAIN NPA_TO_STATE THEN NPA_TO_STATE[ac] ELSE ""

(***************************************************************************)
(* billing_reports.py: phone normalizer and jurisdiction classifier        *)
(***************************************************************************)
\* normalize_phone dropping a leading 1 from more than 11 digits as well, and
\* returning all the digits that follow it
normalize_phone_any_leading_one(phone) ==
    LET digits == SelectSeq(phone, IsDigit)
    IN  IF Len(digits) >= 11 /\ digits[1] = "1"
        THEN Tail(digits)
        ELSE IF Len(digits) >= 10 THEN SubSeq(digits, 1, 10) ELSE digits

normalize_phone(phone) ==
    LET digits == SelectSeq(phone, IsDigit)
    IN  IF Len(digits) = 11 /\ digits[1] = "1"
        THEN SubSeq(digits, 2, 11)
        ELSE IF Len(digits) >= 10 THEN SubSeq(digits, 1, 10) ELSE digits

get_area_code(phone) ==
    LET normalized == normalize_phone(phone)
    IN  IF Len(normalized) >= 3 THEN SubSeq(normalized, 1, 3) ELSE <<>>

get_state(phone) == NpaGet(get_area_code(phone))

is_toll_free(phone) == get_area_code(phone) \in TOLL_FREE

\* classify_call looking the states up before the toll-free test
classify_call_states_first(source, dest) ==
    IF get_state(source) = "" \/ get_state(dest) = "" THEN "unknown"
    ELSE IF is_toll_free(source) \/ is_toll_free(dest) THEN "toll_free"
    ELSE IF get_state(source) = get_state(dest) THEN "intrastate"
    ELSE "interstate"

\* classify_call comparing the area codes instead of the states
classify_call_by_area_code(source, dest) ==
    IF is_toll_free(source) \/ is_toll_free(dest) THEN "toll_free"
    ELSE IF get_state(source) = "" \/ get_state(dest) = "" THEN "unknown"
    ELSE IF get_area_code(source) = get_area_code(dest) THEN "intrastate"
    ELSE "interstate"

\* classify_call testing only the source for a toll-free area code
classify_call_source_toll_free(source, dest) ==
    IF is_toll_free(source) THEN "toll_free"
    ELSE IF get_state(source) = "" \/ get_state(dest) = "" THEN "unknown"
    ELSE IF get_state(source) = get_state(dest) THEN "intrastate"
    ELSE "interstate"

classify_call(source, dest) ==
    IF is_toll_free(source) \/ is_toll_free(dest)
    THEN "toll_free"
    ELSE LET src_state == get_state(source)
             dst_state == get_state(dest)
         IN  IF src_state = "" \/ dst_state = ""
             THEN "unknown"
             ELSE IF src_state = dst_state THEN "intrastate" ELSE "interstate"

(***************************************************************************)
(* call_ratio.py: the stand-alone classifier                               *)
(***************************************************************************)
\* get_area_code taking the first three digits whatever their number
ratio_get_area_code_first_digits(phone_number) ==
    LET digits == SelectSeq(phone_number, IsDigit)
    IN  IF Len(digits) >= 3 THEN SubSeq(digits, 1, 3) ELSE <<>>

ratio_get_area_code(phone_number) ==
    LET digits == SelectSeq(phone_number, IsDigit)
    IN  IF Len(digits) = 11 /\ digits[1] = "1"
        THEN SubSeq(digits, 2, 4)
        ELSE IF Len(digits) = 10
             THEN SubSeq(digits, 1, 3)
             ELSE IF Len(digits) >= 3 THEN SubSeq(digits, 1, 3) ELSE <<>>

ratio_get_state(phone_number) == NpaGet(ratio_get_area_code(phone_number))

ratio_is_toll_free(phone_number) == ratio_get_area_code(phone_number) \in TOLL_FREE

ratio_classify_call(source, destination) ==
    IF ratio_is_toll_free(source) \/ ratio_is_toll_free(destination)
    THEN "toll_free"
    ELSE LET source_state == ratio_get_state(source)
             dest_state == ratio_get_state(destination)
         IN  IF source_state = "" \/ dest_state = ""
             THEN "unknown"
             ELSE IF source_state = dest_state THEN "intrastate" ELSE "interstate"

(***************************************************************************)
(* Python values: None, truthiness, float() of a CSV field                 *)
(***************************************************************************)
\* None: a value that is no string (every character of a string is one
\* character long)
PyNone == <<"None">>

\* bool(v) for v a string or None
Truthy(v) == v # PyNone /\ v # <<>>

\* dict.get(key): None when the key is absent
DictGet(d, key) == IF key \in DOMAIN d THEN d[key] ELSE PyNone

DigitValue ==
    "0" :> 0 @@ "1" :> 1 @@ "2" :> 2 @@ "3" :> 3 @@ "4" :> 4 @@
    "5" :> 5 @@ "6" :> 6 @@ "7" :> 7 @@ "8" :> 8 @@ "9" :> 9

RECURSIVE DecimalValue(_)
DecimalValue(ds) ==
    IF ds = <<>> THEN 0
    ELSE 10 * DecimalValue(SubSeq(ds, 1, Len(ds) - 1)) + DigitValue[ds[Len(ds)]]

AllDigits(s) == s # <<>> /\ \A i \in 1..Len(s) : IsDigit(s[i])

(***************************************************************************)
(* Python floats                                                           *)
(*                                                                         *)
(* A float is [m, e], the number m * 2^e, with m odd or m = e = 0, and     *)
(* |m| < 2^FloatPrecision.  Every operation gives the float nearest to the *)
(* exact result, ties to the even significand, as IEEE 754 arithmetic      *)
(* does; binary64 has a significand of 53 bits.                            *)
(***************************************************************************)
FloatPrecision == 9

RECURSIVE Pow2(_)
Pow2(k) == IF k <= 0 THEN 1 ELSE 2 * Pow2(k - 1)

RECURSIVE Pow10(_)
Pow10(k) == IF k <= 0 THEN 1 ELSE 10 * Pow10(k - 1)

\* the number of bits of a natural number
RECURSIVE BitLen(_)
BitLen(i) == IF i <= 0 THEN 0 ELSE 1 + BitLen(i \div 2)

FZero == [m |-> 0, e |-> 0]

\* the representation of i * 2^e, for |i| < 2^FloatPrecision
RECURSIVE Canonical(_, _)
Canonical(i, e) ==
    IF i = 0 THEN FZero
    ELSE IF i % 2 = 0 THEN Canonical(i \div 2, e + 1)
    ELSE [m |-> i, e |-> e]

\* the float nearest to i * 2^e, for a natural number i
RoundNat(i, e) ==
    LET k == BitLen(i) - FloatPrecision
        q == i \div Pow2(k)
        r == i % Pow2(k)
        half == Pow2(k - 1)
    IN  IF k <= 0 THEN Canonical(i, e)
        ELSE IF r > half \/ (r = half /\ q % 2 = 1)
        THEN Canonical(q + 1, e + k)
        ELSE Canonical(q, e + k)

FNeg(x) == [m |-> 0 - x.m, e |-> x.e]

FRound(i, e) == IF i < 0 THEN FNeg(RoundNat(0 - i, e)) ELSE RoundNat(i, e)

\* the float nearest to (num / den) * 2^e, for natural numbers num and den,
\* den > 0: the quotient is taken to FloatPrecision + 2 bits and one more
\* bit tells whether anything is left of the division
RoundQuotient(num, den, e) ==
    LET shift == FloatPrecision + 2 + BitLen(den) - BitLen(num)
        s == IF shift > 0 THEN shift ELSE 0
        q == (num * Pow2(s)) \div den
        sticky == IF (num * Pow2(s)) % den = 0 THEN 0 ELSE 1
    IN  IF num = 0 THEN FZero ELSE RoundNat(2 * q + sticky, e - s - 1)

Abs(i) == IF i < 0 THEN 0 - i ELSE i

\* the position of the leading bit of a float different from 0
Top(x) == x.e + BitLen(Abs(x.m))

\* x + y: an operand below a quarter of the last place of the other adds
\* nothing
FAdd(x, y) ==
    LET e == IF x.e < y.e THEN x.e ELSE y.e
    IN  IF x.m = 0 THEN y
        ELSE IF y.m = 0 THEN x
        ELSE IF Top(x) - Top(y) > FloatPrecision + 2 THEN x
        ELSE IF Top(y) - Top(x) > FloatPrecision + 2 THEN y
        ELSE FRound(x.m * Pow2(x.e - e) + y.m * Pow2(y.e - e), e)

\* x * y
FMul(x, y) == FRound(x.m * y.m, x.e + y.e)

\* x / y, for y different from 0
FDiv(x, y) ==
    LET q == RoundQuotient(Abs(x.m), Abs(y.m), x.e - y.e)
    IN  IF (x.m < 0) = (y.m < 0) THEN q ELSE FNeg(q)

\* float(i) of an int
FloatOfInt(i) == FRound(i, 0)

\* x is a whole number
IsWhole(x) == x.e >= 0

\* x < y
FLess(x, y) ==
    LET e == IF x.e < y.e THEN x.e ELSE y.e
    IN  x.m * Pow2(x.e - e) < y.m * Pow2(y.e - e)

\* the characters after the decimal point of a numeral
RECURSIVE Fraction(_)
Fraction(s) ==
    IF s = <<>> THEN <<>> ELSE IF Head(s) = "." THEN Tail(s) ELSE Fraction(Tail(s))

\* a run of digits with at most one decimal point
IsNumeral(s) ==
    /\ \A i \in 1..Len(s) : IsDigit(s[i]) \/ s[i] = "."
    /\ Len(SelectSeq(s, LAMBDA c : c = ".")) <= 1
    /\ SelectSeq(s, IsDigit) # <<>>

\* float(text) for a text over the digits, the signs, the decimal point, the
\* blank and the letter x: surrounding whitespace is ignored, an optionally
\* signed numeral is the float nearest to its value, anything else raises
\* ValueError (ok = FALSE)
ParseFloat(text) ==
    LET t == Strip(text)
        body == IF t # <<>> /\ Head(t) \in {"-", "+"} THEN Tail(t) ELSE t
        neg == t # <<>> /\ Head(t) = "-"
        magnitude == RoundQuotient(DecimalValue(SelectSeq(body, IsDigit)),
                                   Pow10(Len(Fraction(body))), 0)
    IN  IF IsNumeral(body)
        THEN [ok |-> TRUE, val |-> IF neg THEN FNeg(magnitude) ELSE magnitude]
        ELSE [ok |-> FALSE, val |-> FZero]

\* float(field or 0): an empty field is falsy and becomes float(0)
FloatOrZero(field) ==
    IF field = <<>> THEN [ok |-> TRUE, val |-> FloatOfInt(0)] ELSE ParseFloat(field)

(***************************************************************************)
(* billing_reports.py: customer resolver                                   *)
(***************************************************************************)
Unknown == <<"U","n","k","n","o","w","n">>

Unassigned == <<"U","n","a","s","s","i","g","n","e","d">>

\* domain.split('.')[0]
RECURSIVE FirstSegment(_)
FirstSegment(s) ==
    IF s = <<>> \/ Head(s) = "." THEN <<>> ELSE <<Head(s)>> \o FirstSegment(Tail(s))

get_customer_name(domain) ==
    IF domain = <<>> THEN Unknown ELSE FirstSegment(domain)

\* load_phone_mapping keeping the first row of a phone number
load_phone_mapping_row_first_wins(mapping, entry) ==
    LET phone == normalize_phone(entry.Phone)
        domain == entry.Domain
    IN  IF phone # <<>> /\ domain # <<>> /\ phone \notin DOMAIN mapping
        THEN [k \in DOMAIN mapping \cup {phone} |->
                 IF k = phone THEN get_customer_name(domain) ELSE mapping[k]]
        ELSE mapping

\* one iteration of the loop of load_phone_mapping over an inventory row
load_phone_mapping_row(mapping, entry) ==
    LET phone == normalize_phone(entry.Phone)
        domain == entry.Domain
    IN  IF phone # <<>> /\ domain # <<>>
        THEN [k \in DOMAIN mapping \cup {phone} |->
                 IF k = phone THEN get_customer_name(domain) ELSE mapping[k]]
        ELSE mapping

\* the resolver trying the destination before the source
resolve_customer_dest_first(mapping, src_normalized, dst_normalized) ==
    IF Truthy(DictGet(mapping, dst_normalized))
    THEN DictGet(mapping, dst_normalized)
    ELSE IF Truthy(DictGet(mapping, src_normalized))
         THEN DictGet(mapping, src_normalized)
         ELSE Unassigned

\* phone_mapping.get(src) or phone_mapping.get(dst) or "Unassigned"
resolve_customer(mapping, src_normalized, dst_normalized) ==
    IF Truthy(DictGet(mapping, src_normalized))
    THEN DictGet(mapping, src_normalized)
    ELSE IF Truthy(DictGet(mapping, dst_normalized))
         THEN DictGet(mapping, dst_normalized)
         ELSE Unassigned

(***************************************************************************)
(* billing_reports.py: CustomerStats and the CDR aggregators               *)
(*                                                                         *)
(* Call counts are ints; seconds and costs are floats.                     *)
(***************************************************************************)
\* 0.005
VOICE_RATE_PER_MINUTE == RoundQuotient(5, 1000, 0)

\* CustomerStats(name="")
DefaultStats ==
    [name |-> <<>>, total_calls |-> 0, total_seconds |-> FZero,
     total_cost |-> FZero,
     interstate_calls |-> 0, interstate_seconds |-> FZero,
     intrastate_calls |-> 0, intrastate_seconds |-> FZero,
     toll_free_calls |-> 0, toll_free_seconds |-> FZero,
     unknown_calls |-> 0, unknown_seconds |-> FZero,
     phone_numbers |-> {}]

\* CustomerStats.total_minutes
total_minutes(stats) == FDiv(stats.total_seconds, FloatOfInt(60))

\* CustomerStats.billable_cost
billable_cost(stats) == FMul(total_minutes(stats), VOICE_RATE_PER_MINUTE)

\* the accumulator of a customer left without its name
GetOrCreateUnnamed(cust, customer) ==
    IF customer \in DOMAIN cust THEN cust[customer] ELSE DefaultStats

\* customers[customer] of the defaultdict, then the name initialisation
GetOrCreate(cust, customer) ==
    LET stats == IF customer \in DOMAIN cust THEN cust[customer] ELSE DefaultStats
    IN  IF stats.name = <<>> THEN [stats EXCEPT !.name = customer] ELSE stats

\* stats.total_calls += 1; stats.total_seconds += seconds; stats.total_cost += cost
AddTotals(stats, seconds, cost) ==
    [stats EXCEPT !.total_calls = @ + 1,
                  !.total_seconds = FAdd(@, seconds),
                  !.total_cost = FAdd(@, cost)]

\* the chain over call_type without its final else
AddJurisdictionNoElse(stats, type, seconds) ==
    IF type = "interstate"
    THEN [stats EXCEPT !.interstate_calls = @ + 1,
                       !.interstate_seconds = FAdd(@, seconds)]
    ELSE IF type = "intrastate"
    THEN [stats EXCEPT !.intrastate_calls = @ + 1,
                       !.intrastate_seconds = FAdd(@, seconds)]
    ELSE IF type = "toll_free"
    THEN [stats EXCEPT !.toll_free_calls = @ + 1,
                       !.toll_free_seconds = FAdd(@, seconds)]
    ELSE stats

\* the if/elif/else chain over call_type
AddJurisdiction(stats, type, seconds) ==
    IF type = "interstate"
    THEN [stats EXCEPT !.interstate_calls = @ + 1, !.interstate_seconds = FAdd(@, seconds)]
    ELSE IF type = "intrastate"
    THEN [stats EXCEPT !.intrastate_calls = @ + 1, !.intrastate_seconds = FAdd(@, seconds)]
    ELSE IF type = "toll_free"
    THEN [stats EXCEPT !.toll_free_calls = @ + 1, !.toll_free_seconds = FAdd(@, seconds)]
    ELSE [stats EXCEPT !.unknown_calls = @ + 1, !.unknown_seconds = FAdd(@, seconds)]

\* stats.phone_numbers.add(...) for the endpoints present in the mapping
TrackPhones(stats, mapping, src_normalized, dst_normalized) ==
    [stats EXCEPT !.phone_numbers =
        @ \cup ({src_normalized, dst_normalized} \cap DOMAIN mapping)]

Put(cust, customer, stats) ==
    [k \in DOMAIN cust \cup {customer} |-> IF k = customer THEN stats ELSE cust[k]]

\* What one loop iteration leaves behind: raised (an exception left the
\* function), the accumulators, and the loop's locals customer and call_type
\* (PyNone / "" when the iteration did not assign them).
Raised(cust) ==
    [raised |-> TRUE, customers |-> cust, customer |-> PyNone, call_type |-> ""]

Skipped(cust) ==
    [raised |-> FALSE, customers |-> cust, customer |-> PyNone, call_type |-> ""]

\* the loop body of generate_cdr_report skipping negative durations only
cdr_report_row_counts_zero(cust, r, mapping) ==
    LET source == Strip(r.Source)
        dest == Strip(r.Destination)
        seconds == FloatOrZero(r.Seconds)
        cost == FloatOrZero(r.Cost)
        src_normalized == normalize_phone(source)
        dst_normalized == normalize_phone(dest)
        customer == resolve_customer(mapping, src_normalized, dst_normalized)
        type == classify_call(source, dest)
        stats == AddJurisdiction(
                     TrackPhones(
                         AddTotals(GetOrCreate(cust, customer), seconds.val,
                                   cost.val),
                         mapping, src_normalized, dst_normalized),
                     type, seconds.val)
    IN  IF ~seconds.ok \/ ~cost.ok THEN Raised(cust)
        ELSE IF seconds.val.m < 0 THEN Skipped(cust)
        ELSE [raised |-> FALSE, customers |-> Put(cust, customer, stats),
              customer |-> customer, call_type |-> type]

\* generate_cdr_report: the body of `for row in reader`
cdr_report_row(cust, r, mapping) ==
    LET source == Strip(r.Source)
        dest == Strip(r.Destination)
        seconds == FloatOrZero(r.Seconds)
        cost == FloatOrZero(r.Cost)
        src_normalized == normalize_phone(source)
        dst_normalized == normalize_phone(dest)
        customer == resolve_customer(mapping, src_normalized, dst_normalized)
        type == classify_call(source, dest)
        stats == AddJurisdiction(
                     TrackPhones(
                         AddTotals(GetOrCreate(cust, customer), seconds.val,
                                   cost.val),
                         mapping, src_normalized, dst_normalized),
                     type, seconds.val)
    IN  IF ~seconds.ok \/ ~cost.ok THEN Raised(cust)
        ELSE IF seconds.val.m <= 0 THEN Skipped(cust)
        ELSE [raised |-> FALSE, customers |-> Put(cust, customer, stats),
              customer |-> customer, call_type |-> type]

\* generate_cdr_report leaving its loop at the first row without duration
RECURSIVE generate_cdr_report_until_no_duration(_, _, _)
generate_cdr_report_until_no_duration(rows, mapping, cust) ==
    IF rows = <<>> THEN [raised |-> FALSE, customers |-> cust]
    ELSE LET x == cdr_report_row(cust, Head(rows), mapping)
         IN  IF x.raised THEN [raised |-> TRUE, customers |-> cust]
             ELSE IF x.customer = PyNone
             THEN [raised |-> FALSE, customers |-> cust]
             ELSE generate_cdr_report_until_no_duration(Tail(rows), mapping,
                                                        x.customers)

\* generate_cdr_report(cdr_file, phone_mapping): the loop `for row in reader`
\* over the rows of the file from the accumulators cust, left at the first
\* row that raises
RECURSIVE generate_cdr_report(_, _, _)
generate_cdr_report(rows, mapping, cust) ==
    IF rows = <<>> THEN [raised |-> FALSE, customers |-> cust]
    ELSE LET x == cdr_report_row(cust, Head(rows), mapping)
         IN  IF x.raised THEN [raised |-> TRUE, customers |-> cust]
             ELSE generate_cdr_report(Tail(rows), mapping, x.customers)

\* generate_combined_cdr_report: the body of the loop over the Vitelity CSV
combined_vitelity_row(cust, r, mapping) ==
    LET source == Strip(r.Source)
        dest == Strip(r.Destination)
        seconds == FloatOrZero(r.Seconds)
        cost == FloatOrZero(r.Cost)
        src_normalized == normalize_phone(source)
        dst_normalized == normalize_phone(dest)
        customer == resolve_customer(mapping, src_normalized, dst_normalized)
        type == classify_call(source, dest)
        stats == AddJurisdiction(
                     AddTotals(GetOrCreate(cust, customer), seconds.val,
                               cost.val),
                     type, seconds.val)
    IN  IF ~seconds.ok \/ ~cost.ok THEN Raised(cust)
        ELSE IF seconds.val.m <= 0 THEN Skipped(cust)
        ELSE [raised |-> FALSE, customers |-> Put(cust, customer, stats),
              customer |-> customer, call_type |-> type]

(***************************************************************************)
(* billing_reports.py: reading a sheet of a zip-packaged spreadsheet       *)
(*                                                                         *)
(* A workbook is [shared, sheets]: shared is the part xl/sharedStrings.xml *)
(* ([state |-> "missing" | "malformed" | "ok", si |-> its string items]),  *)
(* sheets maps the index N of every part xl/worksheets/sheetN.xml that     *)
(* exists to its sequence of row elements.  A row element is [r, cells]; a *)
(* cell element is [ref, t, v, is]: the attributes r and t ("" when t is   *)
(* absent) and the non-empty text of its <v> and <is><t> children (PyNone  *)
(* when the child is absent).                                              *)
(***************************************************************************)
UpperLetters ==
    {"A","B","C","D","E","F","G","H","I","J","K","L","M",
     "N","O","P","Q","R","S","T","U","V","W","X","Y","Z"}

\* c.isalpha()
IsAlpha(c) == c \in UpperLetters \/ c \in {LowerCase[u] : u \in UpperLetters}

\* int(text), on the same alphabet as ParseFloat
ParseInt(text) ==
    LET t == Strip(text)
        body == IF t # <<>> /\ Head(t) \in {"-", "+"} THEN Tail(t) ELSE t
        neg == t # <<>> /\ Head(t) = "-"
    IN  IF AllDigits(body)
        THEN [ok |-> TRUE,
              val |-> IF neg THEN 0 - DecimalValue(body) ELSE DecimalValue(body)]
        ELSE [ok |-> FALSE, val |-> 0]

\* the try/except around the shared-string part: any failure gives []
read_shared_strings(wb) ==
    IF wb.shared.state = "ok" THEN wb.shared.si ELSE <<>>

\* val_el.text if val_el is not None else ''
TextOrEmpty(child) == IF child = PyNone THEN <<>> ELSE child

\* strings[idx] if idx < len(strings) else val, with Python's negative
\* indexing; raised when int(val) or the indexing raises
SharedStringLookup(val, strings) ==
    LET idx == ParseInt(val)
        n == Len(strings)
    IN  IF ~idx.ok THEN [raised |-> TRUE, val |-> val]
        ELSE IF idx.val >= n THEN [raised |-> FALSE, val |-> val]
        ELSE IF idx.val >= 0 THEN [raised |-> FALSE, val |-> strings[idx.val + 1]]
        ELSE IF idx.val >= 0 - n THEN [raised |-> FALSE, val |-> strings[n + idx.val + 1]]
        ELSE [raised |-> TRUE, val |-> val]

\* extract_skyswitch_cdr and generate_adams_county_report: the value of a cell
shared_cell_value(cell, strings) ==
    LET val == TextOrEmpty(cell.v)
    IN  IF cell.t = "s" /\ val # <<>> /\ strings # <<>>
        THEN SharedStringLookup(val, strings)
        ELSE [raised |-> FALSE, val |-> val]

\* generate_seat_count_report: the value of a cell
inline_cell_value(cell) ==
    IF cell.is # PyNone
    THEN [raised |-> FALSE, val |-> cell.is]
    ELSE [raised |-> FALSE, val |-> TextOrEmpty(cell.v)]

\* ''.join(c for c in ref if c.isalpha())
ColumnOf(ref) == SelectSeq(ref, IsAlpha)

\* the loop over the cells of a row of extract_skyswitch_cdr: row_data, or
\* raised when a cell raises
RECURSIVE shared_row_data(_, _, _)
shared_row_data(cells, strings, row_data) ==
    IF cells = <<>> THEN [raised |-> FALSE, row_data |-> row_data]
    ELSE LET c == shared_cell_value(Head(cells), strings)
             col == ColumnOf(Head(cells).ref)
         IN  IF c.raised THEN [raised |-> TRUE, row_data |-> row_data]
             ELSE shared_row_data(Tail(cells), strings,
                      [k \in DOMAIN row_data \cup {col} |->
                          IF k = col THEN c.val ELSE row_data[k]])

EmptyRowData == [k \in {} |-> <<>>]

\* row_data.get(col, default)
CellGet(row_data, col, default) ==
    IF col \in DOMAIN row_data THEN row_data[col] ELSE default

\* extract_skyswitch_cdr: the body of `for row in rows`; raised when int() of
\* the row number or a cell raises
extract_skyswitch_row(records, sheet_row, strings) ==
    LET row_num == ParseInt(sheet_row.r)
        decoded == shared_row_data(sheet_row.cells, strings, EmptyRowData)
        row_data == decoded.row_data
        source == CellGet(row_data, <<"D">>, <<>>)
        destination == IF CellGet(row_data, <<"F">>, <<>>) # <<>>
                       THEN CellGet(row_data, <<"F">>, <<>>)
                       ELSE CellGet(row_data, <<"E">>, <<>>)
        duration_str == CellGet(row_data, <<"I">>, <<"0">>)
        parsed == ParseFloat(duration_str)
        duration == IF duration_str # <<>> /\ parsed.ok THEN parsed.val
                    ELSE FloatOfInt(0)
        domain == CellGet(row_data, <<"J">>, <<>>)
        customer == get_customer_name(domain)
    IN  IF ~row_num.ok \/ decoded.raised
        THEN [raised |-> TRUE, records |-> records]
        ELSE IF row_num.val = 1
        THEN [raised |-> FALSE, records |-> records]
        ELSE IF duration.m > 0
        THEN [raised |-> FALSE,
              records |-> Append(records,
                  [Source |-> source, Destination |-> destination,
                   Seconds |-> duration, Customer |-> customer])]
        ELSE [raised |-> FALSE, records |-> records]

\* the loop body over skyswitch_records starting the customer's statistics
\* afresh instead of adding to those of the Vitelity rows
combined_skyswitch_record_afresh(cust, record, mapping) ==
    LET source == record.Source
        dest == record.Destination
        seconds == record.Seconds
        customer ==
            IF record.Customer = <<>> \/ record.Customer = Unknown
            THEN resolve_customer(mapping, normalize_phone(source),
                                  normalize_phone(dest))
            ELSE record.Customer
        type == classify_call(source, dest)
        stats == AddJurisdiction(
                     AddTotals([DefaultStats EXCEPT !.name = customer], seconds,
                               FMul(FDiv(seconds, FloatOfInt(60)),
                                    VOICE_RATE_PER_MINUTE)),
                     type, seconds)
    IN  [raised |-> FALSE, customers |-> Put(cust, customer, stats),
         customer |-> customer, call_type |-> type]

\* the loop body over skyswitch_records resolving by phone first and taking
\* the record's own customer name only when no endpoint is in the mapping
combined_skyswitch_record_phone_first(cust, record, mapping) ==
    LET source == record.Source
        dest == record.Destination
        seconds == record.Seconds
        by_phone == resolve_customer(mapping, normalize_phone(source),
                                     normalize_phone(dest))
        customer ==
            IF by_phone # Unassigned \/ record.Customer = <<>>
                  \/ record.Customer = Unknown
            THEN by_phone
            ELSE record.Customer
        type == classify_call(source, dest)
        stats == AddJurisdiction(
                     AddTotals(GetOrCreate(cust, customer), seconds,
                               FMul(FDiv(seconds, FloatOfInt(60)),
                                    VOICE_RATE_PER_MINUTE)),
                     type, seconds)
    IN  [raised |-> FALSE, customers |-> Put(cust, customer, stats),
         customer |-> customer, call_type |-> type]

\* the loop body over skyswitch_records charging the rate per second
combined_skyswitch_record_per_second(cust, record, mapping) ==
    LET source == record.Source
        dest == record.Destination
        seconds == record.Seconds
        customer ==
            IF record.Customer = <<>> \/ record.Customer = Unknown
            THEN resolve_customer(mapping, normalize_phone(source),
                                  normalize_phone(dest))
            ELSE record.Customer
        type == classify_call(source, dest)
        stats == AddJurisdiction(
                     AddTotals(GetOrCreate(cust, customer), seconds,
                               FMul(seconds, VOICE_RATE_PER_MINUTE)),
                     type, seconds)
    IN  [raised |-> FALSE, customers |-> Put(cust, customer, stats),
         customer |-> customer, call_type |-> type]

\* generate_combined_cdr_report: the body of `for record in skyswitch_records`
combined_skyswitch_record(cust, record, mapping) ==
    LET source == record.Source
        dest == record.Destination
        seconds == record.Seconds
        customer ==
            IF record.Customer = <<>> \/ record.Customer = Unknown
            THEN resolve_customer(mapping, normalize_phone(source),
                                  normalize_phone(dest))
            ELSE record.Customer
        type == classify_call(source, dest)
        stats == AddJurisdiction(
                     AddTotals(GetOrCreate(cust, customer), seconds,
                               FMul(FDiv(seconds, FloatOfInt(60)),
                                    VOICE_RATE_PER_MINUTE)),
                     type, seconds)
    IN  [raised |-> FALSE, customers |-> Put(cust, customer, stats),
         customer |-> customer, call_type |-> type]

(***************************************************************************)
(* billing_reports.py: SMS aggregator                                      *)
(***************************************************************************)
Incoming == <<"i","n","c","o","m","i","n","g">>

\* SMSStats()
DefaultSMSStats ==
    [total_messages |-> 0, incoming_messages |-> 0, outgoing_messages |-> 0,
     total_cost |-> FZero]

\* the updates made to one SMSStats for one message
AddMessage(stats, direction, cost) ==
    LET counted == [stats EXCEPT !.total_messages = @ + 1,
                                 !.total_cost = FAdd(@, cost)]
    IN  IF direction = Incoming
        THEN [counted EXCEPT !.incoming_messages = @ + 1]
        ELSE [counted EXCEPT !.outgoing_messages = @ + 1]

\* the loop body with the direction compared as written in the row
sms_report_row_case_sensitive(cust, overall_stats, r, mapping) ==
    LET source == normalize_phone(r.Source)
        dest == normalize_phone(r.Destination)
        parsed == FloatOrZero(r.Cost)
        cost == IF parsed.ok THEN parsed.val ELSE FZero
        customer == resolve_customer(mapping, source, dest)
        stats == IF customer \in DOMAIN cust THEN cust[customer] ELSE DefaultSMSStats
    IN  [raised |-> FALSE,
         customers |-> Put(cust, customer, AddMessage(stats, r.msgDirection, cost)),
         overall |-> AddMessage(overall_stats, r.msgDirection, cost),
         customer |-> customer]

\* generate_sms_report: the body of `for row in reader`
sms_report_row(cust, overall_stats, r, mapping) ==
    LET source == normalize_phone(r.Source)
        dest == normalize_phone(r.Destination)
        direction == Lower(r.msgDirection)
        parsed == FloatOrZero(r.Cost)
        cost == IF parsed.ok THEN parsed.val ELSE FZero
        customer == resolve_customer(mapping, source, dest)
        stats == IF customer \in DOMAIN cust THEN cust[customer] ELSE DefaultSMSStats
    IN  [raised |-> FALSE,
         customers |-> Put(cust, customer, AddMessage(stats, direction, cost)),
         overall |-> AddMessage(overall_stats, direction, cost),
         customer |-> customer]

(***************************************************************************)
(* billing_reports.py: phone-count aggregator                              *)
(***************************************************************************)
NON_BILLABLE_TREATMENTS ==
    { <<"A","v","a","i","l","a","b","l","e"," ","N","u","m","b","e","r">>,
      <<"F","a","x","S","F","A","T","A">>,
      <<"v","F","a","x","S","F","A","T","A">>,
      <<"i","F","a","x">>,
      <<"v","F","a","x">>,
      <<"v","O","n","-","H","o","l","d">>,
      <<"v","O","f","f","N","e","t">> }

\* sub in s
Contains(s, sub) ==
    \E i \in 1..(Len(s) - Len(sub) + 1) : SubSeq(s, i, i + Len(sub) - 1) = sub

\* counts[customer] += 1 on a defaultdict(int)
Increment(counts, customer) ==
    [k \in DOMAIN counts \cup {customer} |->
        IF k = customer
        THEN (IF k \in DOMAIN counts THEN counts[k] ELSE 0) + 1
        ELSE counts[k]]

\* generate_phone_count_report treating a treatment as non-billable only
\* when it is a member of the set
phone_count_row_members_only(billable, excluded, rows, entry) ==
    LET treatment == Strip(entry.Treatment)
        customer == get_customer_name(entry.Domain)
        is_excluded == treatment \in NON_BILLABLE_TREATMENTS
    IN  IF is_excluded
        THEN [billable_counts |-> billable,
              excluded_counts |-> Increment(excluded, customer),
              excluded_rows |-> Append(rows, entry)]
        ELSE [billable_counts |-> Increment(billable, customer),
              excluded_counts |-> excluded,
              excluded_rows |-> rows]

\* generate_phone_count_report: the body of `for row in reader`
phone_count_row(billable, excluded, rows, entry) ==
    LET domain == entry.Domain
        treatment == Strip(entry.Treatment)
        customer == get_customer_name(domain)
        treatment_lower == Lower(treatment)
        is_excluded ==
            \/ treatment \in NON_BILLABLE_TREATMENTS
            \/ Contains(treatment_lower, <<"f","a","x">>)
            \/ Contains(treatment_lower, <<"h","o","l","d">>)
    IN  IF is_excluded
        THEN [billable_counts |-> billable,
              excluded_counts |-> Increment(excluded, customer),
              excluded_rows |-> Append(rows, entry)]
        ELSE [billable_counts |-> Increment(billable, customer),
              excluded_counts |-> excluded,
              excluded_rows |-> rows]

(***************************************************************************)
(* billing_reports.py: the ranked outputs.  A dict is a function and the   *)
(* sequence of its keys in the order of their insertion; an output is the  *)
(* sequence of the (name, stats) pairs its rows are written from.          *)
(***************************************************************************)
\* the keys of a dict after an update that inserted at most one key
Inserted(keys, before, after) ==
    IF DOMAIN after = DOMAIN before THEN keys
    ELSE Append(keys, CHOOSE k \in DOMAIN after \ DOMAIN before : TRUE)

\* sorted(d.items(), key=..., reverse=True), keys being the keys of d in the
\* order of their insertion and less the pairs of keys whose sort keys are in
\* ascending order: a stable sort, so an item goes behind the items of
\* greater sort key and behind the earlier items of equal sort key
sorted_reverse(d, keys, less) ==
    LET Ahead(i) == { j \in 1..Len(keys) :
                        \/ <<keys[i], keys[j]>> \in less
                        \/ <<keys[j], keys[i]>> \notin less /\ j < i }
        At(p) == keys[CHOOSE i \in 1..Len(keys) : Cardinality(Ahead(i)) + 1 = p]
    IN  [p \in 1..Len(keys) |-> [name |-> At(p), stats |-> d[At(p)]]]

\* the rows of cdr.csv sorted in ascending order and then reversed: items of
\* equal sort key come out in the reverse of their order in the dict
cdr_report_output_ascending_reversed(cust, keys) ==
    LET Less(a, b) == FLess(cust[a].total_seconds, cust[b].total_seconds)
        Ahead(i) == { j \in 1..Len(keys) :
                        \/ Less(keys[i], keys[j])
                        \/ ~Less(keys[j], keys[i]) /\ j > i }
        At(p) == keys[CHOOSE i \in 1..Len(keys) : Cardinality(Ahead(i)) + 1 = p]
    IN  [p \in 1..Len(keys) |-> [name |-> At(p), stats |-> cust[At(p)]]]

\* generate_cdr_report and generate_combined_cdr_report: the rows written
cdr_report_output(cust, keys) ==
    sorted_reverse(cust, keys,
        { x \in (DOMAIN cust) \X (DOMAIN cust) :
            FLess(cust[x[1]].total_seconds, cust[x[2]].total_seconds) })

\* generate_sms_report: the rows written
sms_report_output(cust, keys) ==
    sorted_reverse(cust, keys,
        { x \in (DOMAIN cust) \X (DOMAIN cust) :
            cust[x[1]].total_messages < cust[x[2]].total_messages })

\* generate_phone_count_report: the rows written to the billable output
phone_count_output(counts, keys) ==
    sorted_reverse(counts, keys,
        { x \in (DOMAIN counts) \X (DOMAIN counts) : counts[x[1]] < counts[x[2]] })

\* generate_seat_count_report: the rows written
seat_count_output(cust, keys) ==
    sorted_reverse(cust, keys,
        { x \in (DOMAIN cust) \X (DOMAIN cust) :
            cust[x[1]].pbx_users < cust[x[2]].pbx_users })

(***************************************************************************)
(* call_ratio.py: calculate_call_ratio                                     *)
(***************************************************************************)
CallTypes == {"interstate", "intrastate", "toll_free", "unknown"}

InitialTotals == [t \in CallTypes |-> [calls |-> 0, seconds |-> FZero]]

\* calculate_call_ratio: the body of `for row in reader`
call_ratio_row(tot, r) ==
    LET source == Strip(r.Source)
        destination == Strip(r.Destination)
        seconds_str == r.Seconds
        parsed == ParseFloat(seconds_str)
        seconds == IF seconds_str # <<>> /\ parsed.ok THEN parsed.val ELSE FZero
        type == ratio_classify_call(source, destination)
    IN  IF seconds.m <= 0
        THEN [totals |-> tot, call_type |-> ""]
        ELSE [totals |-> [tot EXCEPT ![type].calls = @ + 1,
                                     ![type].seconds = FAdd(@, seconds)],
              call_type |-> type]

(***************************************************************************)
(* billing_reports.py: the three spreadsheet readers as whole calls        *)
(***************************************************************************)
\* z.read(f'xl/worksheets/sheet{N}.xml'): KeyError when the part is absent
HasSheet(wb, sheet_num) == sheet_num \in DOMAIN wb.sheets

\* the loop `for row in rows` of extract_skyswitch_cdr, left at the first
\* row that raises
RECURSIVE extract_skyswitch_rows(_, _, _)
extract_skyswitch_rows(rows, strings, records) ==
    IF rows = <<>> THEN [raised |-> FALSE, records |-> records]
    ELSE LET x == extract_skyswitch_row(records, Head(rows), strings)
         IN  IF x.raised THEN x
             ELSE extract_skyswitch_rows(Tail(rows), strings, x.records)

SKYSWITCH_SHEET == 26

\* extract_skyswitch_cdr(master_xlsx)
extract_skyswitch_cdr(wb) ==
    IF ~HasSheet(wb, SKYSWITCH_SHEET)
    THEN [raised |-> TRUE, records |-> <<>>]
    ELSE extract_skyswitch_rows(wb.sheets[SKYSWITCH_SHEET],
                                read_shared_strings(wb), <<>>)

\* the loop over the cells of a row of generate_seat_count_report
RECURSIVE inline_row_data(_, _)
inline_row_data(cells, row_data) ==
    IF cells = <<>> THEN row_data
    ELSE LET c == inline_cell_value(Head(cells))
             col == ColumnOf(Head(cells).ref)
         IN  inline_row_data(Tail(cells),
                 [k \in DOMAIN row_data \cup {col} |->
                     IF k = col THEN c.val ELSE row_data[k]])

Total == <<"T","o","t","a","l">>

SeatColumns == << <<"B">>, <<"C">>, <<"D">>, <<"E">>, <<"F">>, <<"G">>,
                  <<"H">>, <<"I">>, <<"J">> >>

\* int(row_data.get(col, 0) or 0)
IntOrZero(row_data, col) ==
    IF CellGet(row_data, col, <<>>) = <<>>
    THEN [ok |-> TRUE, val |-> 0]
    ELSE ParseInt(CellGet(row_data, col, <<>>))

\* generate_seat_count_report: the body of `for row in rows`
seat_count_row(cust, sheet_row) ==
    LET row_num == ParseInt(sheet_row.r)
        row_data == inline_row_data(sheet_row.cells, EmptyRowData)
        domain == CellGet(row_data, <<"A">>, <<>>)
        customer == get_customer_name(domain)
        parsed == [i \in 1..Len(SeatColumns) |-> IntOrZero(row_data, SeatColumns[i])]
        stats == [domain |-> domain,
                  pbx_users |-> parsed[1].val, call_center |-> parsed[2].val,
                  call_recording |-> parsed[3].val, sip_trunks |-> parsed[4].val,
                  meeting_rooms |-> parsed[5].val,
                  vm_transcription |-> parsed[6].val,
                  phone_numbers |-> parsed[7].val,
                  teams_connectors |-> parsed[8].val,
                  video_connectors |-> parsed[9].val]
    IN  IF ~row_num.ok THEN [raised |-> TRUE, customers |-> cust]
        ELSE IF row_num.val = 1 THEN [raised |-> FALSE, customers |-> cust]
        ELSE IF domain = Total \/ domain = <<>>
        THEN [raised |-> FALSE, customers |-> cust]
        ELSE IF \E i \in 1..Len(SeatColumns) : ~parsed[i].ok
        THEN [raised |-> FALSE, customers |-> cust]
        ELSE [raised |-> FALSE,
              customers |-> [k \in DOMAIN cust \cup {customer} |->
                                IF k = customer THEN stats ELSE cust[k]]]

RECURSIVE seat_count_rows(_, _)
seat_count_rows(rows, cust) ==
    IF rows = <<>> THEN [raised |-> FALSE, customers |-> cust]
    ELSE LET x == seat_count_row(cust, Head(rows))
         IN  IF x.raised THEN x ELSE seat_count_rows(Tail(rows), x.customers)

SEAT_SHEET == 1

EmptySeats == [k \in {} |-> [domain |-> <<>>]]

\* generate_seat_count_report(domain_stats_xlsx)
generate_seat_count_report(wb) ==
    IF ~HasSheet(wb, SEAT_SHEET)
    THEN [raised |-> TRUE, customers |-> EmptySeats]
    ELSE seat_count_rows(wb.sheets[SEAT_SHEET], EmptySeats)

Department == <<"d","e","p","a","r","t","m","e","n","t">>

\* the header check of generate_adams_county_report: has_dept, or raised
\* when a cell of the header raises
RECURSIVE adams_has_dept(_, _, _)
adams_has_dept(cells, strings, has_dept) ==
    IF cells = <<>> THEN [raised |-> FALSE, has_dept |-> has_dept]
    ELSE LET c == shared_cell_value(Head(cells), strings)
         IN  IF c.raised THEN [raised |-> TRUE, has_dept |-> FALSE]
             ELSE adams_has_dept(Tail(cells), strings,
                                 has_dept \/ Lower(c.val) = Department)

\* one round of `for sheet_num in [10, 11]`: TRUE when the sheet is taken
adams_sheet_found(wb, strings, sheet_num) ==
    /\ HasSheet(wb, sheet_num)
    /\ wb.sheets[sheet_num] # <<>>
    /\ LET h == adams_has_dept(wb.sheets[sheet_num][1].cells, strings, FALSE)
       IN  ~h.raised /\ h.has_dept

\* pivot_data[dept][user_type] += 1 on the nested defaultdict
PivotAdd(pivot, dept, user_type) ==
    LET old == IF dept \in DOMAIN pivot THEN pivot[dept] ELSE [k \in {} |-> 0]
        count == IF user_type \in DOMAIN old THEN old[user_type] ELSE 0
        new == [k \in DOMAIN old \cup {user_type} |->
                   IF k = user_type THEN count + 1 ELSE old[k]]
    IN  [d \in DOMAIN pivot \cup {dept} |-> IF d = dept THEN new ELSE pivot[d]]

\* generate_adams_county_report: the loop `for row in rows[1:]`, left at
\* the first row that raises
RECURSIVE adams_pivot_rows(_, _, _)
adams_pivot_rows(rows, strings, pivot) ==
    IF rows = <<>> THEN [raised |-> FALSE, pivot |-> pivot]
    ELSE LET decoded == shared_row_data(Head(rows).cells, strings, EmptyRowData)
             dept == Strip(CellGet(decoded.row_data, <<"I">>, <<>>))
             user_type == Strip(CellGet(decoded.row_data, <<"A","A">>, <<>>))
         IN  IF decoded.raised THEN [raised |-> TRUE, pivot |-> pivot]
             ELSE adams_pivot_rows(Tail(rows), strings,
                      IF dept # <<>> THEN PivotAdd(pivot, dept, user_type)
                      ELSE pivot)

ADAMS_SHEET == 10
ADAMS_SHEET_FALLBACK == 11

EmptyPivot == [d \in {} |-> [k \in {} |-> 0]]

\* the output of generate_adams_county_report with the summary counting the
\* users of every listed type as billable
adams_report_output_all_billable(pivot) ==
    LET listed == {<<"u">>, <<"n","u">>, <<"n","b">>, <<"v","m"," ","o","n","l","y">>,
                   <<"f","a","x","a","t","a">>}
        Count(dept, ut) == IF ut \in DOMAIN pivot[dept] THEN pivot[dept][ut] ELSE 0
        Sum[S \in SUBSET ((DOMAIN pivot) \X listed)] ==
            IF S = {} THEN 0
            ELSE LET x == CHOOSE x \in S : TRUE
                 IN  Count(x[1], x[2]) + Sum[S \ {x}]
        total == Sum[(DOMAIN pivot) \X listed]
    IN  IF DOMAIN pivot = {} THEN [written |-> FALSE]
        ELSE [written |-> TRUE,
              rows |-> [dept \in DOMAIN pivot |->
                          [counts |-> [ut \in listed |-> Count(dept, ut)],
                           row_total |-> Sum[{dept} \X listed]]],
              grand_totals |-> [ut \in listed |-> Sum[(DOMAIN pivot) \X {ut}]],
              overall_total |-> total,
              billable_users |-> total,
              active_users |-> total]

\* generate_adams_county_report: `if output_file and pivot_data`, what is
\* written to the CSV: the row of each department (the rows are written in
\* the order of the department names, which is not kept here), the row of
\* grand totals and the two summary rows
adams_report_output(pivot) ==
    LET user_types == << <<"u">>, <<"n","u">>, <<"n","b">>,
                         <<"v","m"," ","o","n","l","y">>, <<"f","a","x","a","t","a">> >>
        listed == { user_types[i] : i \in DOMAIN user_types }
        \* pivot_data[dept].get(ut, 0)
        Count(dept, ut) == IF ut \in DOMAIN pivot[dept] THEN pivot[dept][ut] ELSE 0
        \* row_total += count over the listed types of a department
        RowTotal[i \in 0..Len(user_types), dept \in DOMAIN pivot] ==
            IF i = 0 THEN 0 ELSE RowTotal[i - 1, dept] + Count(dept, user_types[i])
        \* grand_totals[ut] += count over the departments
        GrandTotal[S \in SUBSET DOMAIN pivot, ut \in listed] ==
            IF S = {} THEN 0
            ELSE LET dept == CHOOSE d \in S : TRUE
                 IN  Count(dept, ut) + GrandTotal[S \ {dept}, ut]
        grand_totals == [ut \in listed |-> GrandTotal[DOMAIN pivot, ut]]
        \* overall_total += grand_totals[ut]
        Overall[i \in 0..Len(user_types)] ==
            IF i = 0 THEN 0 ELSE Overall[i - 1] + grand_totals[user_types[i]]
    IN  IF DOMAIN pivot = {} THEN [written |-> FALSE]
        ELSE [written |-> TRUE,
              rows |-> [dept \in DOMAIN pivot |->
                          [counts |-> [ut \in listed |-> Count(dept, ut)],
                           row_total |-> RowTotal[Len(user_types), dept]]],
              grand_totals |-> grand_totals,
              overall_total |-> Overall[Len(user_types)],
              billable_users |-> grand_totals[<<"u">>]
                                   + grand_totals[<<"v","m"," ","o","n","l","y">>],
              active_users |-> grand_totals[<<"u">>] + grand_totals[<<"n","u">>]
                                 + grand_totals[<<"v","m"," ","o","n","l","y">>]]

\* generate_adams_county_report(master_xlsx, output_file): the returned
\* pivot and what the output file holds
generate_adams_county_report(wb) ==
    LET strings == read_shared_strings(wb)
        sheet_num == IF adams_sheet_found(wb, strings, ADAMS_SHEET)
                     THEN ADAMS_SHEET ELSE ADAMS_SHEET_FALLBACK
        counted == adams_pivot_rows(Tail(wb.sheets[sheet_num]), strings, EmptyPivot)
    IN  IF ~adams_sheet_found(wb, strings, sheet_num)
        THEN [raised |-> FALSE, pivot |-> EmptyPivot, report |-> [written |-> FALSE]]
        ELSE IF counted.raised
        THEN [raised |-> TRUE, pivot |-> counted.pivot, report |-> [written |-> FALSE]]
        ELSE [raised |-> FALSE, pivot |-> counted.pivot,
              report |-> adams_report_output(counted.pivot)]

(***************************************************************************)
(* Inputs                                                                  *)
(***************************************************************************)
MaxInventory == 2
MaxCdrRows == 2
MaxSkyRows == 2
MaxSmsRows == 3
MaxPhoneRows == 3
MaxSeatRows == 3

PhoneDC == <<"2","0","2","5","5","5","1","2","3","4">>
PhoneDCFormatted == <<"1","-","2","0","2","-","5","5","5","-","1","2","3","4">>
PhoneCA == <<"3","1","0","5","5","5","9","8","7","6">>
PhoneTollFree == <<"8","0","0","5","5","5","1","2","3","4">>
PhoneUnmapped == <<"9","9","9","5","5","5","1","2","3","4">>
PhoneNoDigits == <<"N","/","A">>

DomainA == <<"A",".","1",".","s">>
DomainB == <<"a">>
DomainC == <<"C",".","z">>
DomainNoName == <<".","x">>

\* rows of the phone inventory CSV
InventoryRows ==
    { [kind |-> "inventory", Phone |-> PhoneDCFormatted, Domain |-> DomainA],
      [kind |-> "inventory", Phone |-> PhoneCA, Domain |-> DomainB],
      [kind |-> "inventory", Phone |-> PhoneDC, Domain |-> DomainNoName],
      [kind |-> "inventory", Phone |-> PhoneNoDigits, Domain |-> DomainA],
      [kind |-> "inventory", Phone |-> PhoneCA, Domain |-> <<>>] }

CdrRowOf(source, dest, seconds, cost) ==
    [kind |-> "cdr", Source |-> source, Destination |-> dest,
     Seconds |-> seconds, Cost |-> cost]

\* rows of the Vitelity CDR CSV: well-formed calls of whole and of fractional
\* duration, calls without duration, and rows whose Seconds or Cost is no
\* number
CdrRows ==
    { CdrRowOf(<<" ">> \o PhoneDCFormatted, PhoneCA, <<"7">>, <<"2">>),
      CdrRowOf(PhoneDC, PhoneDC, <<"7">>, <<>>),
      CdrRowOf(PhoneTollFree, <<>>, <<"7">>, <<"2">>),
      CdrRowOf(<<>>, PhoneDC \o <<" ">>, <<"5">>, <<"2">>),
      CdrRowOf(PhoneDC, PhoneCA, <<"0">>, <<"2">>),
      CdrRowOf(PhoneDC, PhoneCA, <<"-","5">>, <<"2">>),
      CdrRowOf(PhoneDC, PhoneCA, <<>>, <<"2">>),
      CdrRowOf(PhoneDC, PhoneCA, <<"x">>, <<"2">>),
      CdrRowOf(PhoneDC, PhoneCA, <<"7">>, <<"x">>),
      CdrRowOf(PhoneDC, PhoneCA, <<"0",".","1">>, <<"2">>),
      CdrRowOf(PhoneDC, PhoneDC, <<"0",".","3">>, <<>>) }

Cell(ref, type, v) == [ref |-> ref, t |-> type, v |-> v, is |-> PyNone]

\* the master workbook read by the combined report: its shared strings
SharedStrings == << DomainA, DomainC, DomainNoName >>

MasterWorkbook ==
    [shared |-> [state |-> "ok", si |-> SharedStrings], sheets |-> <<>>]

SheetRowOf(r, from, dialed, to, duration, domain) ==
    [kind |-> "sheet", r |-> r,
     cells |-> << Cell(<<"D">> \o r, "", from), Cell(<<"E">> \o r, "", dialed),
                  Cell(<<"F">> \o r, "", to), Cell(<<"I">> \o r, "", duration),
                  Cell(<<"J">> \o r, "s", domain) >>]

\* row elements of the SkySwitch CDR sheet: a header, calls with a domain,
\* without one and with a nameless one, a call of fractional duration, calls
\* without duration, and a row whose shared-string reference is no number
SheetRows ==
    { SheetRowOf(<<"1">>, PhoneDC, PyNone, PhoneCA, <<"7">>, <<"0">>),
      SheetRowOf(<<"2">>, PhoneDC, PyNone, PhoneCA, <<"7">>, <<"0">>),
      SheetRowOf(<<"3">>, PhoneCA, PhoneDC, PyNone, <<"3">>, PyNone),
      SheetRowOf(<<"4">>, PhoneTollFree, PyNone, PhoneCA, <<"7">>, <<"2">>),
      SheetRowOf(<<"5">>, PhoneDC, PyNone, PhoneCA, <<"0">>, <<"0">>),
      SheetRowOf(<<"6">>, PhoneDC, PyNone, PhoneCA, <<"x">>, <<"0">>),
      SheetRowOf(<<"7">>, PhoneDC, PyNone, PhoneCA, <<"7">>, <<"x">>),
      SheetRowOf(<<"8">>, PhoneTollFree, PyNone, PhoneCA, <<"0",".","3">>,
                 <<"0">>) }

SmsRowOf(source, dest, direction, cost) ==
    [kind |-> "sms", Source |-> source, Destination |-> dest,
     msgDirection |-> direction, Cost |-> cost]

\* rows of the SMS CSV: incoming in lower and in mixed case, other
\* directions, costs that are whole, fractional, empty and no number
SmsRows ==
    { SmsRowOf(PhoneDCFormatted, PhoneCA, Incoming, <<"0",".","1">>),
      SmsRowOf(PhoneCA, PhoneDC, <<"I","n","C","o","m","i","n","g">>, <<"5">>),
      SmsRowOf(<<>>, <<>>, <<"o","u","t","g","o","i","n","g">>, <<"x">>),
      SmsRowOf(PhoneDC, PhoneUnmapped, <<>>, <<"0",".","3">>),
      SmsRowOf(PhoneUnmapped, PhoneCA, Incoming \o <<" ">>, <<>>) }

\* rows of the phone inventory CSV as the phone-count report reads them:
\* treatments of the non-billable set, with a fax or hold keyword only, and
\* billable ones
PhoneCountRows ==
    LET PhoneRowOf(domain, treatment) ==
            [kind |-> "inventory", Phone |-> PhoneDC, Domain |-> domain,
             Treatment |-> treatment]
    IN  { PhoneRowOf(DomainA, <<"U","s","e","r">>),
          PhoneRowOf(DomainA, <<" ","v","F","a","x","S","F","A","T","A"," ">>),
          PhoneRowOf(DomainC, <<>>),
          PhoneRowOf(DomainC, <<"e","F","A","X"," ","L","i","n","e">>),
          PhoneRowOf(<<>>, <<"A","v","a","i","l","a","b","l","e"," ","N","u","m","b","e","r">>),
          PhoneRowOf(DomainB, <<"O","n"," ","H","o","l","d">>),
          PhoneRowOf(DomainB, <<"a","v","a","i","l","a","b","l","e"," ","n","u","m","b","e","r">>) }

InlineCell(ref, text) == [ref |-> ref, t |-> "inlineStr", v |-> PyNone, is |-> text]

\* row elements of the domain statistics sheet: the header, domains with
\* equal and with different seat counts, a domain whose seat count is no
\* number, and the total row
SeatRows ==
    LET SeatRowOf(r, domain, pbx_users) ==
            [kind |-> "seat", r |-> r,
             cells |-> << InlineCell(<<"A">> \o r, domain),
                          Cell(<<"B">> \o r, "", pbx_users) >>]
    IN  { SeatRowOf(<<"1">>, <<"D">>, <<"B">>),
          SeatRowOf(<<"2">>, DomainA, <<"3">>),
          SeatRowOf(<<"3">>, DomainC, <<"3">>),
          SeatRowOf(<<"4">>, DomainA, <<"x">>),
          SeatRowOf(<<"5">>, DomainB, <<"5">>),
          SeatRowOf(<<"6">>, Total, <<"9">>) }

NoRow == [kind |-> "none"]

EmptyCustomers == [k \in {} |-> DefaultStats]

EmptySMSCustomers == [k \in {} |-> DefaultSMSStats]

\* the two input files main requires
RequiredInputs == {"cdr_file", "phonenumbers_file"}

(***************************************************************************)
(* State                                                                   *)
(*                                                                         *)
(* pc              where the run is: "main" (the checks of main), "exit"   *)
(*                 (sys.exit), "load" (load_phone_mapping), "cdr"          *)
(*                 (the loops over the Vitelity CSV), "sky_extract"        *)
(*                 (extract_skyswitch_cdr), "sky_agg" (the loop over       *)
(*                 skyswitch_records), "sms" (generate_sms_report),        *)
(*                 "phones" (generate_phone_count_report), "seats"         *)
(*                 (the loop of generate_seat_count_report),               *)
(*                 "ratio" (calculate_call_ratio), "done", or "raised"     *)
(*                 when an exception left the function                     *)
(* phone_mapping   the CustomerMap                                         *)
(* inventory       the inventory rows read so far by the current pass      *)
(* row             the row or record of the current loop iteration         *)
(* customer, call_type   the locals of that iteration                      *)
(* cdr_customers   customers of generate_cdr_report                        *)
(* customers       customers of generate_combined_cdr_report               *)
(* sky_customers   customers of generate_combined_cdr_report run on the    *)
(*                 same workbook with an empty Vitelity CSV                *)
(* skyswitch_records, idx   the extracted records and how many of them the *)
(*                 combined report has consumed                            *)
(* sms_customers, overall   the results of generate_sms_report             *)
(* totals          totals of calculate_call_ratio                          *)
(* n               rows read from the current input                        *)
(* workbook        the spreadsheet container being read                    *)
(* reader, returned   the spreadsheet reader that was called on it as a    *)
(*                 whole, and what the call returned or that it raised     *)
(* ratio_call_type the result of call_ratio.classify_call                  *)
(* whole           history: every duration counted so far by the aggregators *)
(*                 or by calculate_call_ratio, and every SMS cost, was a   *)
(*                 whole number                                            *)
(* files           the required input files that exist                     *)
(* output_dir      the output directory has been created                   *)
(* written         the output files, each with the rows written to it      *)
(* insertion       the keys of each dict that is ranked for an output, in  *)
(*                 the order of their insertion                            *)
(* billable_counts, excluded_counts, excluded_rows   the locals of         *)
(*                 generate_phone_count_report                             *)
(* seat_customers  customers of generate_seat_count_report                 *)
(***************************************************************************)
VARIABLES pc, phone_mapping, inventory, row, customer, call_type,
          cdr_customers, customers, sky_customers, skyswitch_records, idx,
          sms_customers, overall, totals, n, workbook, reader, returned,
          ratio_call_type, whole, files, output_dir, written, insertion,
          billable_counts, excluded_counts, excluded_rows, seat_customers

vars == << pc, phone_mapping, inventory, row, customer, call_type,
           cdr_customers, customers, sky_customers, skyswitch_records, idx,
           sms_customers, overall, totals, n, workbook, reader, returned,
           ratio_call_type, whole, files, output_dir, written, insertion,
           billable_counts, excluded_counts, excluded_rows, seat_customers >>

xlsx == << workbook, reader, returned >>

disk == << files, output_dir, written >>

phone_report == << billable_counts, excluded_counts, excluded_rows >>

accumulators == << cdr_customers, customers, sky_customers, sms_customers,
                   overall, totals >>

\* everything but pc, row and workbook, as construction leaves it
Fresh ==
    /\ phone_mapping = [k \in {} |-> <<>>]
    /\ inventory = <<>>
    /\ customer = PyNone
    /\ call_type = ""
    /\ cdr_customers = EmptyCustomers
    /\ customers = EmptyCustomers
    /\ sky_customers = EmptyCustomers
    /\ skyswitch_records = <<>>
    /\ idx = 0
    /\ sms_customers = EmptySMSCustomers
    /\ overall = DefaultSMSStats
    /\ totals = InitialTotals
    /\ n = 0
    /\ reader = ""
    /\ returned = [raised |-> FALSE]
    /\ ratio_call_type = ""
    /\ whole = TRUE
    /\ output_dir = FALSE
    /\ written = [f \in {} |-> <<>>]
    /\ insertion = [cdr_customers |-> <<>>, customers |-> <<>>,
                    sms_customers |-> <<>>, billable_counts |-> <<>>,
                    seat_customers |-> <<>>]
    /\ billable_counts = [k \in {} |-> 0]
    /\ excluded_counts = [k \in {} |-> 0]
    /\ excluded_rows = <<>>
    /\ seat_customers = EmptySeats

\* billing_reports.py starts in main, with any of its two required inputs
\* present or absent; call_ratio.py is a program of its own
Init ==
    /\ \/ pc = "main" /\ files \in SUBSET RequiredInputs
       \/ pc = "ratio" /\ files = RequiredInputs
    /\ row = NoRow
    /\ workbook = MasterWorkbook
    /\ Fresh

(***************************************************************************)
(* main: the checks of the two required inputs, then the output directory  *)
(***************************************************************************)
\* main creating the output directory before it looks for its inputs
MainMkdirFirst ==
    /\ pc = "main"
    /\ output_dir' = TRUE
    /\ pc' = IF "cdr_file" \notin files THEN "exit"
             ELSE IF "phonenumbers_file" \notin files THEN "exit"
             ELSE "load"
    /\ UNCHANGED << phone_mapping, inventory, row, customer, call_type,
                    accumulators, skyswitch_records, idx, n, xlsx, files,
                    written, insertion, phone_report, seat_customers,
                    ratio_call_type, whole >>

Main ==
    /\ pc = "main"
    /\ IF "cdr_file" \notin files
       THEN pc' = "exit" /\ UNCHANGED output_dir
       ELSE IF "phonenumbers_file" \notin files
       THEN pc' = "exit" /\ UNCHANGED output_dir
       ELSE pc' = "load" /\ output_dir' = TRUE
    /\ UNCHANGED << phone_mapping, inventory, row, customer, call_type,
                    accumulators, skyswitch_records, idx, n, xlsx, files,
                    written, insertion, phone_report, seat_customers,
                    ratio_call_type, whole >>

(***************************************************************************)
(* load_phone_mapping                                                      *)
(***************************************************************************)
LoadRow(entry) ==
    /\ pc = "load"
    /\ n < MaxInventory
    /\ phone_mapping' = load_phone_mapping_row(phone_mapping, entry)
    /\ inventory' = Append(inventory, entry)
    /\ row' = entry
    /\ n' = n + 1
    /\ UNCHANGED << pc, customer, call_type, accumulators, skyswitch_records,
                    idx, xlsx, disk, insertion, phone_report, seat_customers, ratio_call_type, whole >>

\* the mapping is returned and handed to the CDR reports
StartCdr ==
    /\ pc = "load"
    /\ pc' = "cdr"
    /\ inventory' = <<>>
    /\ row' = NoRow
    /\ n' = 0
    /\ UNCHANGED << phone_mapping, customer, call_type, accumulators,
                    skyswitch_records, idx, xlsx, disk, insertion, phone_report, seat_customers, ratio_call_type, whole >>

\* the mapping is returned and handed to the SMS report
StartSms ==
    /\ pc = "load"
    /\ pc' = "sms"
    /\ inventory' = <<>>
    /\ row' = NoRow
    /\ n' = 0
    /\ UNCHANGED << phone_mapping, customer, call_type, accumulators,
                    skyswitch_records, idx, xlsx, disk, insertion,
                    phone_report, seat_customers, ratio_call_type, whole >>

\* the mapping is returned and main goes on to the phone-count report
StartPhones ==
    /\ pc = "load"
    /\ pc' = "phones"
    /\ inventory' = <<>>
    /\ row' = NoRow
    /\ n' = 0
    /\ UNCHANGED << phone_mapping, customer, call_type, accumulators,
                    skyswitch_records, idx, xlsx, disk, insertion,
                    phone_report, seat_customers, ratio_call_type, whole >>

\* the mapping is returned and main goes on to the seat-count report
StartSeats ==
    /\ pc = "load"
    /\ pc' = "seats"
    /\ inventory' = <<>>
    /\ row' = NoRow
    /\ n' = 0
    /\ UNCHANGED << phone_mapping, customer, call_type, accumulators,
                    skyswitch_records, idx, xlsx, disk, insertion,
                    phone_report, seat_customers, ratio_call_type, whole >>

\* generate_cdr_report writing its output as it reads: the rows are in the
\* file when an exception leaves the loop
CdrRowWritingThrough(r) ==
    /\ pc = "cdr"
    /\ n < MaxCdrRows
    /\ LET a == cdr_report_row(cdr_customers, r, phone_mapping)
           b == combined_vitelity_row(customers, r, phone_mapping)
           keys == Inserted(insertion.cdr_customers, cdr_customers, a.customers)
       IN  /\ pc' = IF a.raised \/ b.raised THEN "raised" ELSE "cdr"
           /\ cdr_customers' = a.customers
           /\ customers' = b.customers
           /\ customer' = a.customer
           /\ call_type' = a.call_type
           /\ whole' = (whole /\ (a.customer # PyNone
                                     => IsWhole(ParseFloat(r.Seconds).val)))
           /\ insertion' =
                [insertion EXCEPT
                    !.cdr_customers = keys,
                    !.customers = Inserted(@, customers, b.customers)]
           /\ written' = Put(written, "cdr.csv",
                             cdr_report_output(a.customers, keys))
    /\ row' = r
    /\ n' = n + 1
    /\ UNCHANGED << phone_mapping, inventory, sky_customers, skyswitch_records,
                    idx, sms_customers, overall, totals, xlsx, files,
                    output_dir, phone_report, seat_customers,
                    ratio_call_type >>

(***************************************************************************)
(* generate_cdr_report and generate_combined_cdr_report read the same      *)
(* Vitelity CSV: a row of it is taken through the loop body of each.       *)
(***************************************************************************)
CdrRow(r) ==
    /\ pc = "cdr"
    /\ n < MaxCdrRows
    /\ LET a == cdr_report_row(cdr_customers, r, phone_mapping)
           b == combined_vitelity_row(customers, r, phone_mapping)
       IN  /\ pc' = IF a.raised \/ b.raised THEN "raised" ELSE "cdr"
           /\ cdr_customers' = a.customers
           /\ customers' = b.customers
           /\ customer' = a.customer
           /\ call_type' = a.call_type
           /\ whole' = (whole /\ (a.customer # PyNone
                                     => IsWhole(ParseFloat(r.Seconds).val)))
           /\ insertion' =
                [insertion EXCEPT
                    !.cdr_customers = Inserted(@, cdr_customers, a.customers),
                    !.customers = Inserted(@, customers, b.customers)]
    /\ row' = r
    /\ n' = n + 1
    /\ UNCHANGED << phone_mapping, inventory, sky_customers, skyswitch_records,
                    idx, sms_customers, overall, totals, xlsx, disk,
                    phone_report, seat_customers, ratio_call_type >>

\* end of the Vitelity CSV: generate_cdr_report writes its output, and the
\* combined report goes on to the workbook
EndCdr ==
    /\ pc = "cdr"
    /\ pc' = "sky_extract"
    /\ written' = Put(written, "cdr.csv",
                      cdr_report_output(cdr_customers,
                                        insertion.cdr_customers))
    /\ row' = NoRow
    /\ customer' = PyNone
    /\ call_type' = ""
    /\ n' = 0
    /\ UNCHANGED << phone_mapping, inventory, accumulators, skyswitch_records,
                    idx, xlsx, files, output_dir, insertion, phone_report,
                    seat_customers, ratio_call_type, whole >>

(***************************************************************************)
(* extract_skyswitch_cdr, then the loop over its records                   *)
(***************************************************************************)
SkyRow(r) ==
    /\ pc = "sky_extract"
    /\ n < MaxSkyRows
    /\ LET x == extract_skyswitch_row(skyswitch_records, r,
                                      read_shared_strings(workbook))
       IN  /\ pc' = IF x.raised THEN "raised" ELSE "sky_extract"
           /\ skyswitch_records' = x.records
    /\ row' = r
    /\ n' = n + 1
    /\ UNCHANGED << phone_mapping, inventory, customer, call_type, accumulators,
                    idx, xlsx, disk, insertion, phone_report, seat_customers, ratio_call_type, whole >>

EndExtract ==
    /\ pc = "sky_extract"
    /\ pc' = "sky_agg"
    /\ row' = NoRow
    /\ n' = 0
    /\ UNCHANGED << phone_mapping, inventory, customer, call_type, accumulators,
                    skyswitch_records, idx, xlsx, disk, insertion, phone_report, seat_customers, ratio_call_type, whole >>

SkyRecord ==
    /\ pc = "sky_agg"
    /\ idx < Len(skyswitch_records)
    /\ LET record == skyswitch_records[idx + 1]
           a == combined_skyswitch_record(customers, record, phone_mapping)
           b == combined_skyswitch_record(sky_customers, record, phone_mapping)
       IN  /\ customers' = a.customers
           /\ sky_customers' = b.customers
           /\ customer' = a.customer
           /\ call_type' = a.call_type
           /\ row' = [kind |-> "record", Source |-> record.Source,
                      Destination |-> record.Destination,
                      Seconds |-> record.Seconds, Customer |-> record.Customer]
           /\ whole' = (whole /\ IsWhole(record.Seconds))
           /\ insertion' =
                [insertion EXCEPT
                    !.customers = Inserted(@, customers, a.customers)]
    /\ idx' = idx + 1
    /\ UNCHANGED << pc, phone_mapping, inventory, cdr_customers,
                    skyswitch_records, sms_customers, overall, totals, n,
                    xlsx, disk, phone_report, seat_customers,
                    ratio_call_type >>

\* the records are used up: the combined report writes its output
EndCombined ==
    /\ pc = "sky_agg"
    /\ idx = Len(skyswitch_records)
    /\ pc' = "done"
    /\ written' = Put(written, "cdr_combined.csv",
                      cdr_report_output(customers, insertion.customers))
    /\ row' = NoRow
    /\ UNCHANGED << phone_mapping, inventory, customer, call_type, accumulators,
                    skyswitch_records, idx, n, xlsx, files, output_dir,
                    insertion, phone_report, seat_customers, ratio_call_type,
                    whole >>

(***************************************************************************)
(* generate_sms_report                                                     *)
(***************************************************************************)
SmsRow(r) ==
    /\ pc = "sms"
    /\ n < MaxSmsRows
    /\ LET a == sms_report_row(sms_customers, overall, r, phone_mapping)
       IN  /\ sms_customers' = a.customers
           /\ overall' = a.overall
           /\ customer' = a.customer
           /\ insertion' =
                [insertion EXCEPT
                    !.sms_customers = Inserted(@, sms_customers, a.customers)]
           /\ whole' = (whole /\ (FloatOrZero(r.Cost).ok
                                     => IsWhole(FloatOrZero(r.Cost).val)))
    /\ row' = r
    /\ n' = n + 1
    /\ UNCHANGED << pc, phone_mapping, inventory, call_type, cdr_customers,
                    customers, sky_customers, skyswitch_records, idx, totals,
                    xlsx, disk, phone_report, seat_customers,
                    ratio_call_type >>

\* end of the SMS CSV: the report writes its output
EndSms ==
    /\ pc = "sms"
    /\ pc' = "done"
    /\ written' = Put(written, "sms.csv",
                      sms_report_output(sms_customers,
                                        insertion.sms_customers))
    /\ row' = NoRow
    /\ UNCHANGED << phone_mapping, inventory, customer, call_type, accumulators,
                    skyswitch_records, idx, n, xlsx, files, output_dir,
                    insertion, phone_report, seat_customers, ratio_call_type,
                    whole >>

(***************************************************************************)
(* generate_phone_count_report                                             *)
(***************************************************************************)
PhoneRow(entry) ==
    /\ pc = "phones"
    /\ n < MaxPhoneRows
    /\ LET a == phone_count_row(billable_counts, excluded_counts,
                                excluded_rows, entry)
       IN  /\ billable_counts' = a.billable_counts
           /\ excluded_counts' = a.excluded_counts
           /\ excluded_rows' = a.excluded_rows
           /\ insertion' =
                [insertion EXCEPT
                    !.billable_counts =
                        Inserted(@, billable_counts, a.billable_counts)]
    /\ inventory' = Append(inventory, entry)
    /\ row' = entry
    /\ n' = n + 1
    /\ UNCHANGED << pc, phone_mapping, customer, call_type, accumulators,
                    skyswitch_records, idx, xlsx, disk, seat_customers,
                    ratio_call_type, whole >>

\* end of the inventory: the billable counts are written, and the excluded
\* rows if there are any
EndPhones ==
    /\ pc = "phones"
    /\ pc' = "done"
    /\ LET billable == Put(written, "phones.csv",
                           phone_count_output(billable_counts,
                                              insertion.billable_counts))
       IN  written' = IF excluded_rows # <<>>
                      THEN Put(billable, "phones_excl.csv", excluded_rows)
                      ELSE billable
    /\ row' = NoRow
    /\ UNCHANGED << phone_mapping, inventory, customer, call_type, accumulators,
                    skyswitch_records, idx, n, xlsx, files, output_dir,
                    insertion, phone_report, seat_customers, ratio_call_type,
                    whole >>

(***************************************************************************)
(* generate_seat_count_report, row by row                                  *)
(***************************************************************************)
SeatRow(r) ==
    /\ pc = "seats"
    /\ n < MaxSeatRows
    /\ LET x == seat_count_row(seat_customers, r)
       IN  /\ pc' = IF x.raised THEN "raised" ELSE "seats"
           /\ seat_customers' = x.customers
           /\ insertion' =
                [insertion EXCEPT
                    !.seat_customers =
                        Inserted(@, seat_customers, x.customers)]
    /\ row' = r
    /\ n' = n + 1
    /\ UNCHANGED << phone_mapping, inventory, customer, call_type, accumulators,
                    skyswitch_records, idx, xlsx, disk, phone_report,
                    ratio_call_type, whole >>

\* end of the sheet: the report writes its output
EndSeats ==
    /\ pc = "seats"
    /\ pc' = "done"
    /\ written' = Put(written, "seats.csv",
                      seat_count_output(seat_customers,
                                        insertion.seat_customers))
    /\ row' = NoRow
    /\ UNCHANGED << phone_mapping, inventory, customer, call_type, accumulators,
                    skyswitch_records, idx, n, xlsx, files, output_dir,
                    insertion, phone_report, seat_customers, ratio_call_type,
                    whole >>

(***************************************************************************)
(* calculate_call_ratio                                                    *)
(***************************************************************************)
RatioRow(r) ==
    /\ pc = "ratio"
    /\ n < MaxCdrRows
    /\ LET a == call_ratio_row(totals, r)
       IN  /\ totals' = a.totals
           /\ ratio_call_type' = a.call_type
           /\ whole' = (whole /\ (a.call_type # ""
                                     => IsWhole(ParseFloat(r.Seconds).val)))
    /\ row' = r
    /\ n' = n + 1
    /\ UNCHANGED << pc, phone_mapping, inventory, customer, call_type,
                    cdr_customers, customers, sky_customers, skyswitch_records,
                    idx, sms_customers, overall, xlsx, disk, insertion, phone_report, seat_customers >>

EndRatio ==
    /\ pc = "ratio"
    /\ pc' = "done"
    /\ row' = NoRow
    /\ UNCHANGED << phone_mapping, inventory, customer, call_type, accumulators,
                    skyswitch_records, idx, n, xlsx, disk, insertion, phone_report, seat_customers, ratio_call_type, whole >>

Next ==
    \/ Main
    \/ \E entry \in InventoryRows : LoadRow(entry)
    \/ StartCdr
    \/ StartSms
    \/ StartPhones
    \/ StartSeats
    \/ \E r \in CdrRows : CdrRow(r)
    \/ EndCdr
    \/ \E r \in SheetRows : SkyRow(r)
    \/ EndExtract
    \/ SkyRecord
    \/ EndCombined
    \/ \E r \in SmsRows : SmsRow(r)
    \/ EndSms
    \/ \E entry \in PhoneCountRows : PhoneRow(entry)
    \/ EndPhones
    \/ \E r \in SeatRows : SeatRow(r)
    \/ EndSeats
    \/ \E r \in CdrRows : RatioRow(r)
    \/ EndRatio

Spec == Init /\ [][Next]_vars

(***************************************************************************)
(* The classifiers on their own: every pair of raw numbers built from a    *)
(* prefix, an area code and a tail is classified by both programs, as it   *)
(* is or after normalize_phone.                                            *)
(***************************************************************************)
RawPhones ==
    LET Prefixes == { <<>>, <<"1">>, <<"+","1"," ">>, <<"9">> }
        AreaCodes == { <<"2","0","2">>, <<"3","1","0">>, <<"2","1","3">>,
                       <<"8","0","0">>, <<"8","8","8">>, <<"9","9","9">> }
        Tails == { <<"5","5","5","1","2","3","4">>,
                   <<"-","5","5","5","-","1","2","3","4">>,
                   <<"5","5","5","1","2","3","4","9">>, <<"5">>, <<>> }
    IN  { p \o a \o tl : p \in Prefixes, a \in AreaCodes, tl \in Tails }
            \cup { <<>>, PhoneNoDigits }

ClassifyInit ==
    /\ pc = "classify"
    /\ row \in { [kind |-> "call", Source |-> a, Destination |-> b] :
                     a \in RawPhones, b \in RawPhones }
    /\ workbook = MasterWorkbook
    /\ files = RequiredInputs
    /\ Fresh

ClassifyCall ==
    /\ pc = "classify"
    /\ pc' = "classified"
    /\ call_type' = classify_call(row.Source, row.Destination)
    /\ ratio_call_type' = ratio_classify_call(row.Source, row.Destination)
    /\ UNCHANGED << phone_mapping, inventory, row, customer, accumulators,
                    skyswitch_records, idx, n, xlsx, disk, insertion, phone_report, seat_customers, whole >>

\* normalize_phone is called on both endpoints, as the aggregators do before
\* they look the customer up
NormalizeCall ==
    /\ pc = "classify"
    /\ row.kind = "call"
    /\ row' = [kind |-> "normalized",
               Source |-> normalize_phone(row.Source),
               Destination |-> normalize_phone(row.Destination)]
    /\ UNCHANGED << pc, phone_mapping, inventory, customer, call_type,
                    accumulators, skyswitch_records, idx, n, xlsx, disk, insertion, phone_report, seat_customers,
                    ratio_call_type, whole >>

ClassifyNext == ClassifyCall \/ NormalizeCall

SpecClassify == ClassifyInit /\ [][ClassifyNext]_vars

(***************************************************************************)
(* The spreadsheet readers on their own: each is called on a workbook whose *)
(* shared-string part is missing, malformed or present and whose sheets 1, *)
(* 10, 11 and 26 are absent, empty or filled with rows: strings shared and  *)
(* inline, references inside and outside the list of strings, sheets with   *)
(* and without a row 1.                                                     *)
(***************************************************************************)
XlsxStrings ==
    SharedStrings \o << <<"D","e","p","a","r","t","m","e","n","t">>, <<"U","s","e","r","T","y","p","e">>, <<"R","o","a","d","s">>, <<"u">>,
                        <<"n","u">>, <<"v","m"," ","o","n","l","y">>, <<"z","z">>, <<"P","a","r","k","s">> >>

\* a sheet of calls: the header and two calls, one of them without duration
SkySheet ==
    << SheetRowOf(<<"1">>, PhoneDC, PyNone, PhoneCA, <<"7">>, <<"0">>),
       SheetRowOf(<<"2">>, PhoneDC, PyNone, PhoneCA, <<"7">>, <<"0">>),
       SheetRowOf(<<"3">>, PhoneDC, PyNone, PhoneCA, <<"0">>, <<"0">>) >>

\* a sheet of domain statistics: the header, a domain and the total row
SeatSheet ==
    << [r |-> <<"1">>, cells |-> << InlineCell(<<"A","1">>, <<"D">>) >>],
       [r |-> <<"2">>,
        cells |-> << InlineCell(<<"A","2">>, DomainA),
                     Cell(<<"B","2">>, "", <<"3">>), Cell(<<"H","2">>, "", <<"5">>) >>],
       [r |-> <<"3">>,
        cells |-> << InlineCell(<<"A","3">>, Total), Cell(<<"B","3">>, "", <<"3">>) >>] >>

\* a user export: the header naming Department and UserType, a user of a
\* department and a user of none
AdamsSheet ==
    << [r |-> <<"1">>,
        cells |-> << Cell(<<"I","1">>, "s", <<"3">>), Cell(<<"A","A","1">>, "s", <<"4">>) >>],
       [r |-> <<"2">>,
        cells |-> << Cell(<<"I","2">>, "s", <<"5">>), Cell(<<"A","A","2">>, "s", <<"6">>) >>],
       [r |-> <<"3">>,
        cells |-> << Cell(<<"I","3">>, "", PyNone), Cell(<<"A","A","3">>, "s", <<"6">>) >>] >>

\* the part is not in the archive
Absent == PyNone

Workbooks ==
    LET \* the shared-string part: missing, malformed or present
        SharedParts ==
            { [state |-> "missing", si |-> <<>>],
              [state |-> "malformed", si |-> <<>>],
              [state |-> "ok", si |-> XlsxStrings] }
        \* the archive with the sheets that are not absent
        WorkbookOf(shared, s1, s10, s11, s26) ==
            LET part == (SEAT_SHEET :> s1) @@ (ADAMS_SHEET :> s10)
                            @@ (ADAMS_SHEET_FALLBACK :> s11)
                            @@ (SKYSWITCH_SHEET :> s26)
            IN  [shared |-> shared,
                 sheets |-> [k \in { i \in DOMAIN part : part[i] # Absent } |->
                                part[k]]]
        \* a sheet of calls whose second row names its domain in the given cell
        Calls(domain) ==
            << SheetRowOf(<<"1">>, PhoneDC, PyNone, PhoneCA, <<"7">>, <<"0">>),
               [kind |-> "sheet", r |-> <<"2">>,
                cells |-> << Cell(<<"D","2">>, "", PhoneDC),
                             Cell(<<"F","2">>, "", PhoneCA),
                             Cell(<<"I","2">>, "", <<"7">>), domain >>] >>
        \* references into the shared strings: the last position, the first
        \* position after it, and negative numbers; a domain as raw value
        \* and as inline string
        DomainCells ==
            { Cell(<<"J","2">>, "s", <<"1","0">>),
              Cell(<<"J","2">>, "s", <<"1","1">>),
              Cell(<<"J","2">>, "s", <<"-","1">>),
              Cell(<<"J","2">>, "s", <<"-","1","2">>),
              Cell(<<"J","2">>, "", DomainC),
              InlineCell(<<"J","2">>, DomainC) }
        \* the rows of a sheet of calls with the call before the header
        CallsFirst == << SkySheet[2], SkySheet[1] >>
        \* a domain named by a shared string
        SeatsShared ==
            << SeatSheet[1],
               [r |-> <<"2">>,
                cells |-> << Cell(<<"A","2">>, "s", <<"0">>),
                             Cell(<<"B","2">>, "", <<"3">>) >>] >>
        \* two domains of one customer
        SeatsOfOne ==
            << SeatSheet[1], SeatSheet[2],
               [r |-> <<"3">>,
                cells |-> << InlineCell(<<"A","3">>, <<"A",".","2">>),
                             Cell(<<"B","3">>, "", <<"5">>) >>] >>
        \* the domain before the header
        SeatsFirst == << SeatSheet[2], SeatSheet[1] >>
        \* a row of the user export
        User(r, dept, user_type) ==
            [r |-> r, cells |-> << Cell(<<"I">> \o r, "s", dept),
                                  Cell(<<"A","A">> \o r, "s", user_type) >>]
        \* users of the listed types in two departments
        Users ==
            << AdamsSheet[1], User(<<"2">>, <<"5">>, <<"6">>),
               User(<<"3">>, <<"5">>, <<"7">>), User(<<"4">>, <<"5">>, <<"8">>),
               User(<<"5">>, <<"1","0">>, <<"6">>) >>
        \* a user of a type that is not listed
        UsersUnlisted ==
            << AdamsSheet[1], User(<<"2">>, <<"5">>, <<"6">>),
               User(<<"3">>, <<"5">>, <<"9">>) >>
        \* a user whose department is an inline string
        UsersInline ==
            << AdamsSheet[1],
               [r |-> <<"2">>,
                cells |-> << InlineCell(<<"I","2">>, XlsxStrings[6]),
                             Cell(<<"A","A","2">>, "s", <<"6">>) >>] >>
        \* the export without a row 1: the header is row 2
        UsersFromRow2 ==
            << User(<<"2">>, <<"3">>, <<"4">>), User(<<"3">>, <<"5">>, <<"6">>) >>
        \* a user whose department is a reference below the first position
        UsersBelow ==
            << AdamsSheet[1], User(<<"2">>, <<"-","1","2">>, <<"6">>) >>
    IN  { WorkbookOf(shared, s1, s10, s11, s26) :
            shared \in SharedParts,
            s1 \in {Absent, <<>>, SeatSheet, SeatsShared, SeatsOfOne, SeatsFirst},
            s10 \in {Absent, <<>>, AdamsSheet, SkySheet, Users, UsersUnlisted,
                     UsersInline, UsersFromRow2, UsersBelow},
            s11 \in {Absent, <<>>, AdamsSheet},
            s26 \in {Absent, <<>>, SkySheet, CallsFirst}
                      \cup { Calls(domain) : domain \in DomainCells } }

XlsxInit ==
    /\ pc = "xlsx"
    /\ row = NoRow
    /\ workbook \in Workbooks
    /\ files = RequiredInputs
    /\ Fresh

\* the call returns or an exception leaves it
Called(name, result) ==
    /\ pc = "xlsx"
    /\ pc' = IF result.raised THEN "raised" ELSE "returned"
    /\ reader' = name
    /\ returned' = result
    /\ UNCHANGED << phone_mapping, inventory, row, customer, call_type,
                    accumulators, skyswitch_records, idx, n, workbook, disk, insertion, phone_report, seat_customers,
                    ratio_call_type, whole >>

CallExtract == Called("extract_skyswitch_cdr", extract_skyswitch_cdr(workbook))

CallSeatCount ==
    Called("generate_seat_count_report", generate_seat_count_report(workbook))

CallAdamsCounty ==
    Called("generate_adams_county_report", generate_adams_county_report(workbook))

XlsxNext == CallExtract \/ CallSeatCount \/ CallAdamsCounty

SpecXlsx == XlsxInit /\ [][XlsxNext]_vars

(***************************************************************************)
(* generate_cdr_report as a whole call: a CDR file of up to MaxFileRows     *)
(* rows is read in any order of its rows, with a phone mapping loaded       *)
(* before.                                                                  *)
(***************************************************************************)
MaxFileRows == 3

\* a CDR file: calls of whole and of fractional duration between mapped
\* numbers, a toll-free call, a call without duration and a row whose
\* Seconds field is no number
FileInit ==
    /\ pc = "file"
    /\ row \in { [kind |-> "file", rows |-> rows, read |-> <<>>] :
                    rows \in UNION { [1..k ->
                        { CdrRowOf(PhoneDC, PhoneCA, <<"7">>, <<"2">>),
                          CdrRowOf(PhoneCA, PhoneDC, <<"5">>, <<"2">>),
                          CdrRowOf(PhoneTollFree, PhoneDC, <<"0">>, <<"2">>),
                          CdrRowOf(PhoneDC, PhoneCA, <<"0",".","1">>, <<"2">>),
                          CdrRowOf(PhoneDC, PhoneDC, <<"0",".","3">>, <<>>),
                          CdrRowOf(PhoneDC, PhoneCA, <<"x">>, <<"2">>) }] :
                        k \in 0..MaxFileRows } }
    /\ workbook = MasterWorkbook
    /\ files = RequiredInputs
    /\ Fresh

\* main loads a phone mapping and calls generate_cdr_report on the file,
\* whose rows stand in one of their orders
ReadFile ==
    /\ pc = "file"
    /\ \E mapping \in
            { phone_mapping,
              load_phone_mapping_row(
                  load_phone_mapping_row(
                      phone_mapping,
                      [kind |-> "inventory", Phone |-> PhoneDCFormatted,
                       Domain |-> DomainA]),
                  [kind |-> "inventory", Phone |-> PhoneCA, Domain |-> DomainB]) },
          order \in Permutations(DOMAIN row.rows) :
            LET read == [i \in DOMAIN row.rows |-> row.rows[order[i]]]
                x == generate_cdr_report(read, mapping, EmptyCustomers)
            IN  /\ phone_mapping' = mapping
                /\ row' = [row EXCEPT !.read = read]
                /\ cdr_customers' = x.customers
                /\ pc' = IF x.raised THEN "raised" ELSE "read"
    /\ UNCHANGED << inventory, customer, call_type, customers, sky_customers,
                    skyswitch_records, idx, sms_customers, overall, totals, n,
                    xlsx, disk, insertion, phone_report, seat_customers,
                    ratio_call_type, whole >>

FileNext == ReadFile

SpecFile == FileInit /\ [][FileNext]_vars

(***************************************************************************)
(* Properties                                                              *)
(***************************************************************************)
\* the call count and the seconds of jurisdiction bucket j of a CustomerStats
BucketCalls(stats, j) ==
    IF j = "interstate" THEN stats.interstate_calls
    ELSE IF j = "intrastate" THEN stats.intrastate_calls
    ELSE IF j = "toll_free" THEN stats.toll_free_calls
    ELSE stats.unknown_calls

BucketSeconds(stats, j) ==
    IF j = "interstate" THEN stats.interstate_seconds
    ELSE IF j = "intrastate" THEN stats.intrastate_seconds
    ELSE IF j = "toll_free" THEN stats.toll_free_seconds
    ELSE stats.unknown_seconds

StatsOf(cust, name) == IF name \in DOMAIN cust THEN cust[name] ELSE DefaultStats

\* a + b + c + d == total_seconds and the same for the call counts, as
\* Python evaluates them
BucketsAddUp(stats) ==
    /\ FAdd(FAdd(FAdd(stats.interstate_seconds, stats.intrastate_seconds),
                 stats.toll_free_seconds), stats.unknown_seconds)
          = stats.total_seconds
    /\ stats.interstate_calls + stats.intrastate_calls
         + stats.toll_free_calls + stats.unknown_calls = stats.total_calls

CallsAddUp(stats) ==
    stats.interstate_calls + stats.intrastate_calls
        + stats.toll_free_calls + stats.unknown_calls = stats.total_calls

AllStats ==
    { cdr_customers[name] : name \in DOMAIN cdr_customers }
        \cup { customers[name] : name \in DOMAIN customers }
        \cup { sky_customers[name] : name \in DOMAIN sky_customers }

\* C1 as stated: in every state of the CDR aggregator and of the combined
\* aggregator, every CustomerStats has its four jurisdiction seconds summing
\* to total_seconds and its four jurisdiction call counts summing to
\* total_calls.
C1_BucketsAddUp == \A stats \in AllStats : BucketsAddUp(stats)

\* C1 amended: the four jurisdiction call counts of every CustomerStats always
\* sum to total_calls, and as long as every duration counted was a whole
\* number of seconds the four jurisdiction seconds sum to total_seconds.
C1_WholeSecondsAddUp ==
    \A stats \in AllStats :
        /\ CallsAddUp(stats)
        /\ whole => BucketsAddUp(stats)

\* a customer of the finished combined report with calls of whole duration
\* in two buckets, fed by both streams
C1_Witness ==
    /\ pc = "done"
    /\ whole
    /\ \E name \in DOMAIN customers \cap DOMAIN cdr_customers \cap DOMAIN sky_customers :
          /\ customers[name].total_calls >= 3
          /\ customers[name].interstate_calls >= 1
          /\ customers[name].intrastate_calls >= 1

\* the endpoints of the classified pair
TollFreeEndpoint(r) ==
    \/ get_area_code(r.Source) \in TOLL_FREE
    \/ get_area_code(r.Destination) \in TOLL_FREE

Unresolvable(phone) == get_area_code(phone) \notin DOMAIN NPA_TO_STATE

\* C2: a pair with a toll-free area code at either endpoint is classified
\* toll_free by both classifiers, whatever the other endpoint is.
C2_TollFreeFirst ==
    (pc = "classified" /\ TollFreeEndpoint(row))
        => call_type = "toll_free" /\ ratio_call_type = "toll_free"

\* a toll-free number paired with an empty or unresolvable one
C2_Witness ==
    /\ pc = "classified"
    /\ get_area_code(row.Destination) \in TOLL_FREE
    /\ row.Source = <<>>
    /\ call_type = "toll_free"

\* C3: a pair without toll-free endpoint is unknown when the area code of
\* either endpoint is not in the table, intrastate when both map to the same
\* state, interstate otherwise; 202 and 310 (DC, CA) give interstate.
C3_StateComparison ==
    (pc = "classified" /\ ~TollFreeEndpoint(row)) =>
        /\ call_type =
             IF Unresolvable(row.Source) \/ Unresolvable(row.Destination)
             THEN "unknown"
             ELSE IF NPA_TO_STATE[get_area_code(row.Source)]
                       = NPA_TO_STATE[get_area_code(row.Destination)]
                  THEN "intrastate"
                  ELSE "interstate"
        /\ (row.Source = PhoneDC /\ row.Destination = PhoneCA)
              => call_type = "interstate"

\* two different area codes of one state, classified intrastate
C3_Witness ==
    /\ pc = "classified"
    /\ ~Unresolvable(row.Source) /\ ~Unresolvable(row.Destination)
    /\ get_area_code(row.Source) # get_area_code(row.Destination)
    /\ call_type = "intrastate"

\* the current iteration resolved its customer from the two phone numbers
ResolvedByPhone ==
    \/ pc = "cdr" /\ row.kind = "cdr" /\ customer # PyNone
    \/ pc = "sms" /\ row.kind = "sms"
    \/ pc = "sky_agg" /\ row.kind = "record"
          /\ (row.Customer = <<>> \/ row.Customer = Unknown)

\* source first, then destination, then "Unassigned", by key membership
ResolveByKey(mapping, src, dst) ==
    IF src \in DOMAIN mapping THEN mapping[src]
    ELSE IF dst \in DOMAIN mapping THEN mapping[dst]
    ELSE Unassigned

\* the same, passing over keys whose customer name is empty
ResolveByName(mapping, src, dst) ==
    IF src \in DOMAIN mapping /\ mapping[src] # <<>> THEN mapping[src]
    ELSE IF dst \in DOMAIN mapping /\ mapping[dst] # <<>> THEN mapping[dst]
    ELSE Unassigned

\* C4 as stated: the resolved customer is the map's customer of the
\* normalized source when that is a key, else of the normalized destination
\* when that is a key, else "Unassigned".
C4_ResolveByKey ==
    ResolvedByPhone =>
        customer = ResolveByKey(phone_mapping, normalize_phone(row.Source),
                                normalize_phone(row.Destination))

\* C4 amended: the resolved customer is the map's customer of the normalized
\* source when that is a key with a non-empty customer name, else of the
\* normalized destination when that is a key with a non-empty customer name,
\* else "Unassigned".
C4_ResolveByName ==
    ResolvedByPhone =>
        customer = ResolveByName(phone_mapping, normalize_phone(row.Source),
                                 normalize_phone(row.Destination))

\* the source is a key with an empty customer name and the call goes to the
\* destination's customer
C4_Witness ==
    /\ ResolvedByPhone
    /\ normalize_phone(row.Source) \in DOMAIN phone_mapping
    /\ phone_mapping[normalize_phone(row.Source)] = <<>>
    /\ normalize_phone(row.Destination) \in DOMAIN phone_mapping
    /\ customer = phone_mapping[normalize_phone(row.Destination)]
    /\ customer # <<>>

\* the CustomerMap that a sequence of inventory rows is said to give, with
\* Accepted(entry) telling which rows count
LastAccepted(entries, Accepted(_), phone) ==
    CHOOSE i \in 1..Len(entries) :
        /\ Accepted(entries[i]) /\ normalize_phone(entries[i].Phone) = phone
        /\ \A j \in (i + 1)..Len(entries) :
              ~(Accepted(entries[j]) /\ normalize_phone(entries[j].Phone) = phone)

MapOf(entries, Accepted(_)) ==
    [phone \in { normalize_phone(entries[i].Phone) :
                     i \in { j \in 1..Len(entries) : Accepted(entries[j]) } } |->
        FirstSegment(entries[LastAccepted(entries, Accepted, phone)].Domain)]

RawAccepted(entry) == entry.Phone # <<>> /\ entry.Domain # <<>>

NormalizedAccepted(entry) ==
    normalize_phone(entry.Phone) # <<>> /\ entry.Domain # <<>>

\* C5 as stated: the map has exactly the keys normalize(phone) of the rows
\* whose phone and domain are non-empty, each mapped to the first segment of
\* the domain of the last such row.
C5_RawAccepted ==
    pc = "load" => phone_mapping = MapOf(inventory, RawAccepted)

\* C5 amended: the map has exactly the keys normalize(phone) of the rows whose
\* normalized phone and domain are non-empty, each mapped to the first
\* dot-delimited segment of the domain of the last such row; other rows add
\* or change nothing.
C5_NormalizedAccepted ==
    pc = "load" => phone_mapping = MapOf(inventory, NormalizedAccepted)

\* two accepted rows with the same normalized phone and different customers
C5_Witness ==
    /\ pc = "load"
    /\ Len(inventory) = 2
    /\ NormalizedAccepted(inventory[1]) /\ NormalizedAccepted(inventory[2])
    /\ inventory[1].Phone # inventory[2].Phone
    /\ normalize_phone(inventory[1].Phone) = normalize_phone(inventory[2].Phone)
    /\ phone_mapping[normalize_phone(inventory[2].Phone)]
         # FirstSegment(inventory[1].Domain)

\* the ten summed fields of a customer agree between the combined pass and
\* the sum of the two independent passes
CallsMerged(name) ==
    LET c == StatsOf(customers, name)
        a == StatsOf(cdr_customers, name)
        b == StatsOf(sky_customers, name)
    IN  /\ c.total_calls = a.total_calls + b.total_calls
        /\ \A j \in CallTypes : BucketCalls(c, j) = BucketCalls(a, j) + BucketCalls(b, j)

SecondsMerged(name) ==
    LET c == StatsOf(customers, name)
        a == StatsOf(cdr_customers, name)
        b == StatsOf(sky_customers, name)
    IN  /\ c.total_seconds = FAdd(a.total_seconds, b.total_seconds)
        /\ \A j \in CallTypes :
              BucketSeconds(c, j) = FAdd(BucketSeconds(a, j), BucketSeconds(b, j))

SameNames == DOMAIN customers = DOMAIN cdr_customers \cup DOMAIN sky_customers

\* C6 as stated: the customers of the combined pass are those of the two
\* independent passes, matched by the exact name, and each has as total
\* calls, total seconds and per-jurisdiction calls and seconds the sums of
\* what the two passes give it.
C6_CombinedIsSum ==
    /\ SameNames
    /\ \A name \in DOMAIN customers : CallsMerged(name) /\ SecondsMerged(name)

\* C6 amended: the customers of the combined pass are those of the two
\* independent passes, matched by the exact name; each has as call counts the
\* sums of what the two passes give it, and as seconds those sums as long as
\* every duration counted was a whole number of seconds.
C6_WholeCombinedIsSum ==
    /\ SameNames
    /\ \A name \in DOMAIN customers :
          /\ CallsMerged(name)
          /\ whole => SecondsMerged(name)

\* the finished combined report holds a customer fed by both streams and a
\* customer whose name differs from it by case only
C6_Witness ==
    /\ pc = "done"
    /\ whole
    /\ \E name \in DOMAIN cdr_customers \cap DOMAIN sky_customers :
          /\ customers[name].total_calls >= 3
          /\ \E other \in DOMAIN customers :
                other # name /\ Lower(other) = Lower(name)

\* new is old with one call of duration d counted in bucket j and nothing else
\* of the counts and seconds changed
CountedIn(old, new, j, d) ==
    /\ new.total_calls = old.total_calls + 1
    /\ new.total_seconds = FAdd(old.total_seconds, d)
    /\ BucketCalls(new, j) = BucketCalls(old, j) + 1
    /\ BucketSeconds(new, j) = FAdd(BucketSeconds(old, j), d)
    /\ \A k \in CallTypes \ {j} :
          /\ BucketCalls(new, k) = BucketCalls(old, k)
          /\ BucketSeconds(new, k) = BucketSeconds(old, k)

\* after is before with one call of duration d counted for one customer and
\* every other customer as it was
CountedOnce(before, after, d) ==
    \E name \in DOMAIN after :
        /\ \E j \in CallTypes : CountedIn(StatsOf(before, name), after[name], j, d)
        /\ DOMAIN after = DOMAIN before \cup {name}
        /\ \A other \in DOMAIN after \ {name} : after[other] = before[other]

\* the same for the totals of calculate_call_ratio
RatioCountedOnce(before, after, d) ==
    \E j \in CallTypes :
        /\ after[j].calls = before[j].calls + 1
        /\ after[j].seconds = FAdd(before[j].seconds, d)
        /\ \A k \in CallTypes \ {j} : after[k] = before[k]

\* the duration of a CSV row that has one: float() of its Seconds field
HasDuration(r) == r.Seconds # <<>> /\ ParseFloat(r.Seconds).ok

Duration(r) == ParseFloat(r.Seconds).val

\* a step that reads one row of the Vitelity CSV, one record of the secondary
\* stream, one row of the CSV of calculate_call_ratio
ReadsCdrRow == pc = "cdr" /\ n' = n + 1

ReadsSkyRecord == pc = "sky_agg" /\ idx' = idx + 1

ReadsRatioRow == pc = "ratio" /\ n' = n + 1

\* C7 as stated: a step that processes a call record of duration > 0 counts
\* one call of that duration for exactly one customer in exactly one
\* jurisdiction bucket and leaves every other bucket and customer as it was,
\* in generate_cdr_report, in both loops of generate_combined_cdr_report and
\* in calculate_call_ratio.
C7_CountedOnce ==
    [][ /\ (ReadsCdrRow /\ HasDuration(row') /\ Duration(row').m > 0) =>
              /\ CountedOnce(cdr_customers, cdr_customers', Duration(row'))
              /\ CountedOnce(customers, customers', Duration(row'))
        /\ ReadsSkyRecord =>
              /\ row'.Seconds.m > 0
              /\ CountedOnce(customers, customers', row'.Seconds)
              /\ CountedOnce(sky_customers, sky_customers', row'.Seconds)
        /\ (ReadsRatioRow /\ HasDuration(row') /\ Duration(row').m > 0) =>
              RatioCountedOnce(totals, totals', Duration(row')) ]_vars

\* C7 for the records that get as far as the counting: the same, for the rows
\* of the Vitelity CSV whose Cost field is empty or a number.
C7_ParsedCountedOnce ==
    [][ /\ (ReadsCdrRow /\ HasDuration(row') /\ Duration(row').m > 0
               /\ FloatOrZero(row'.Cost).ok) =>
              /\ CountedOnce(cdr_customers, cdr_customers', Duration(row'))
              /\ CountedOnce(customers, customers', Duration(row'))
        /\ ReadsSkyRecord =>
              /\ row'.Seconds.m > 0
              /\ CountedOnce(customers, customers', row'.Seconds)
              /\ CountedOnce(sky_customers, sky_customers', row'.Seconds)
        /\ (ReadsRatioRow /\ HasDuration(row') /\ Duration(row').m > 0) =>
              RatioCountedOnce(totals, totals', Duration(row')) ]_vars

\* a second call counted for a customer that has one, in another bucket, with
\* another customer in the accumulators
C7_Witness ==
    /\ pc = "cdr" /\ row.kind = "cdr" /\ n = 2
    /\ customer # PyNone
    /\ customer \in DOMAIN cdr_customers
    /\ cdr_customers[customer].total_calls = 1
    /\ Cardinality(DOMAIN cdr_customers) = 2

\* the text of the duration cell of a sheet row
RECURSIVE DurationCell(_)
DurationCell(cells) ==
    IF cells = <<>> THEN <<"0">>
    ELSE IF ColumnOf(Head(cells).ref) = <<"I">> THEN TextOrEmpty(Head(cells).v)
    ELSE DurationCell(Tail(cells))

NoDuration(text) == text = <<>> \/ (ParseFloat(text).ok /\ ParseFloat(text).val.m <= 0)

\* C8: a step that reads a call record whose duration is empty or a number
\* <= 0 leaves every accumulator of the CDR and combined aggregators and
\* every call-ratio total as it was, creating no customer entry, and such a
\* row of the secondary stream adds no record to the extracted ones.
C8_NoDurationDropped ==
    [][ /\ (ReadsCdrRow /\ NoDuration(row'.Seconds)) =>
              UNCHANGED << cdr_customers, customers, sky_customers, totals >>
        /\ (pc = "sky_extract" /\ n' = n + 1 /\ NoDuration(DurationCell(row'.cells))) =>
              UNCHANGED << skyswitch_records, cdr_customers, customers,
                           sky_customers, totals >>
        /\ (ReadsRatioRow /\ NoDuration(row'.Seconds)) =>
              UNCHANGED << cdr_customers, customers, sky_customers, totals >>
      ]_vars

\* a row of negative duration was read after a counted one
C8_Witness ==
    /\ pc = "cdr" /\ row.kind = "cdr" /\ n = 2
    /\ ParseFloat(row.Seconds).ok /\ ParseFloat(row.Seconds).val.m < 0
    /\ cdr_customers # EmptyCustomers
    /\ customers = cdr_customers

\* C9 as stated: reading a row of the Vitelity CSV or of the SMS CSV never
\* ends the pass with an exception, whatever its fields hold.
C9_NeverAborts == row.kind \in {"cdr", "sms"} => pc # "raised"

\* C10 as stated: whatever parts the workbook lacks, none of the three
\* spreadsheet readers raises.
C10_NeverRaises == reader # "" => ~returned.raised

\* no shared-string reference of the workbook lies below the list of strings
\* (such a reference is no missing part: it is the subject of C21)
ReferencesFromStart ==
    \A s \in DOMAIN workbook.sheets :
        \A i \in DOMAIN workbook.sheets[s] :
            \A j \in DOMAIN workbook.sheets[s][i].cells :
                LET c == workbook.sheets[s][i].cells[j]
                IN  (c.t = "s" /\ ParseInt(TextOrEmpty(c.v)).ok)
                        => ParseInt(TextOrEmpty(c.v)).val >= 0

\* C10 for the anomalies that are taken care of: no reader raises on a
\* workbook that holds the sheet the reader reads first, whatever its
\* shared-string part, and the department pivot raises on none.
C10_DegradesWithTargetSheet ==
    ReferencesFromStart =>
        /\ (reader = "extract_skyswitch_cdr" /\ HasSheet(workbook, SKYSWITCH_SHEET))
              => ~returned.raised
        /\ (reader = "generate_seat_count_report" /\ HasSheet(workbook, SEAT_SHEET))
              => ~returned.raised
        /\ reader = "generate_adams_county_report" => ~returned.raised

\* the department pivot returned empty for a workbook whose sheet 10 is no
\* user export and whose shared-string part is malformed
C10_Witness ==
    /\ reader = "generate_adams_county_report"
    /\ workbook.shared.state = "malformed"
    /\ HasSheet(workbook, ADAMS_SHEET)
    /\ workbook.sheets[ADAMS_SHEET] = SkySheet
    /\ ~returned.raised
    /\ returned.pivot = EmptyPivot

(***************************************************************************)
(* C11: malformed endpoints                                                *)
(***************************************************************************)
Malformed(phone) == Len(normalize_phone(phone)) < 10

\* one endpoint is malformed and the other one is not toll-free
MalformedEndpoint(r) ==
    \/ Malformed(r.Source) /\ get_area_code(r.Destination) \notin TOLL_FREE
    \/ Malformed(r.Destination) /\ get_area_code(r.Source) \notin TOLL_FREE

\* C11 as stated: a pair with an endpoint of fewer than 10 digits, the other
\* endpoint not being toll-free, is classified unknown.
C11_MalformedUnknown ==
    (pc = "classified" /\ MalformedEndpoint(row)) => call_type = "unknown"

\* C11 for the endpoints that have no area code at all: a pair with an
\* endpoint of fewer than 3 digits, the other endpoint not being toll-free,
\* is classified unknown by both classifiers.
C11_NoAreaCodeUnknown ==
    (/\ pc = "classified"
     /\ \/ /\ Len(normalize_phone(row.Source)) < 3
           /\ get_area_code(row.Destination) \notin TOLL_FREE
        \/ /\ Len(normalize_phone(row.Destination)) < 3
           /\ get_area_code(row.Source) \notin TOLL_FREE)
        => call_type = "unknown" /\ ratio_call_type = "unknown"

\* a number without any digit called a well-formed one
C11_Witness ==
    /\ pc = "classified"
    /\ row.Source = PhoneNoDigits
    /\ get_state(row.Destination) = "CA"
    /\ ~Malformed(row.Destination)
    /\ call_type = "unknown"

(***************************************************************************)
(* C16: normalize_phone is idempotent                                      *)
(***************************************************************************)
\* C16: a number that normalize_phone returned is returned unchanged when
\* it is normalized again, whatever raw number it came from (10 digits, 11
\* digits with a leading 1, shorter, longer, with other characters).
C16_NormalizeIdempotent ==
    row.kind = "normalized" =>
        /\ normalize_phone(row.Source) = row.Source
        /\ normalize_phone(row.Destination) = row.Destination

\* a normalized pair that came from 11 digits with a leading 1 and from more
\* than 11 digits
C16_Witness ==
    /\ row.kind = "normalized"
    /\ row.Source = PhoneDC
    /\ row.Destination = <<"1","3","1","0","5","5","5","1","2","3">>

(***************************************************************************)
(* C17: the classifiers are symmetric                                      *)
(***************************************************************************)
\* C17: the class of a pair is the class of the swapped pair, for both
\* classifiers; with a toll-free endpoint it is toll_free in both orders,
\* and two resolvable endpoints give the same of interstate and intrastate.
C17_Symmetric ==
    pc = "classified" =>
        /\ call_type = classify_call(row.Destination, row.Source)
        /\ ratio_call_type = ratio_classify_call(row.Destination, row.Source)
        /\ TollFreeEndpoint(row) =>
              classify_call(row.Destination, row.Source) = "toll_free"
        /\ (~TollFreeEndpoint(row) /\ ~Unresolvable(row.Source)
                /\ ~Unresolvable(row.Destination))
              => call_type \in {"interstate", "intrastate"}

\* an interstate pair without toll-free endpoint, and its source is not its
\* destination
C17_Witness ==
    /\ pc = "classified"
    /\ ~TollFreeEndpoint(row)
    /\ call_type = "interstate"
    /\ get_state(row.Source) = "DC"

(***************************************************************************)
(* C12: the customer of a secondary-stream record                          *)
(***************************************************************************)
\* the domain a row of the sheet names in its column J: the shared string
\* its fifth cell refers to, empty when the cell has no value
DomainOf(sheet_row) ==
    LET v == sheet_row.cells[5].v
    IN  IF v = PyNone THEN <<>> ELSE SharedStrings[DecimalValue(v) + 1]

\* a step of extract_skyswitch_cdr that appends a record
AppendsRecord ==
    pc = "sky_extract" /\ Len(skyswitch_records') = Len(skyswitch_records) + 1

\* the record carries a customer name of its own
NamedByDomain(record) == record.Customer # <<>> /\ record.Customer # Unknown

\* C12: the record extracted from a row carries the customer name of the
\* row's own domain; the combined report counts a record under that name
\* when it is neither empty nor "Unknown", whatever the mapping holds for
\* its endpoints, and under the phone-resolved customer (source, then
\* destination, then "Unassigned") otherwise.
C12_DomainNameTrusted ==
    [][ /\ AppendsRecord =>
              skyswitch_records'[Len(skyswitch_records')].Customer
                  = get_customer_name(DomainOf(row'))
        /\ ReadsSkyRecord =>
              /\ customer' =
                    IF NamedByDomain(row') THEN row'.Customer
                    ELSE ResolveByName(phone_mapping,
                                       normalize_phone(row'.Source),
                                       normalize_phone(row'.Destination))
              /\ customer' \in DOMAIN customers'
              /\ customers'[customer'].total_calls
                    = StatsOf(customers, customer').total_calls + 1
              /\ \A other \in DOMAIN customers' \ {customer'} :
                    /\ other \in DOMAIN customers
                    /\ customers'[other] = customers[other] ]_vars

\* a record counted under the name of its domain although the mapping has
\* another customer for one of its endpoints
C12_Witness ==
    /\ pc = "sky_agg" /\ row.kind = "record"
    /\ NamedByDomain(row)
    /\ customer = row.Customer
    /\ ResolveByName(phone_mapping, normalize_phone(row.Source),
                     normalize_phone(row.Destination))
          \notin {row.Customer, Unassigned}

(***************************************************************************)
(* C13: the cost of a record                                               *)
(***************************************************************************)
\* the cost of a secondary-stream record at the fixed rate
RatedCost(seconds) ==
    FMul(FDiv(seconds, FloatOfInt(60)), VOICE_RATE_PER_MINUTE)

\* a step adds cost to the total_cost of its customer
AddsCost(before, after, name, cost) ==
    /\ name \in DOMAIN after
    /\ after[name].total_cost = FAdd(StatsOf(before, name).total_cost, cost)

\* what C13 says of every step: a secondary-stream record adds its rated
\* cost, a counted primary-stream row adds its own Cost field, 0 when absent
CostAdded ==
    /\ ReadsSkyRecord =>
          LET cost == RatedCost(row'.Seconds)
          IN  /\ AddsCost(customers, customers', customer', cost)
              /\ AddsCost(sky_customers, sky_customers', customer', cost)
    /\ (ReadsCdrRow /\ customer' # PyNone) =>
          /\ AddsCost(customers, customers', customer',
                      FloatOrZero(row'.Cost).val)
          /\ row'.Cost = <<>> =>
                customers'[customer'].total_cost
                    = StatsOf(customers, customer').total_cost

\* C13 as stated: besides, after every record, every customer of a run that
\* read secondary-stream records only has a total_cost equal to its billable
\* cost.
C13_CostIsBillable ==
    [][ /\ CostAdded
        /\ ReadsSkyRecord =>
              \A name \in DOMAIN sky_customers' :
                  sky_customers'[name].total_cost
                      = billable_cost(sky_customers'[name]) ]_vars

\* C13 amended: besides, after every record, every customer of a run that
\* read secondary-stream records only and that received one record has a
\* total_cost equal to its billable cost.
C13_OneRecordCostIsBillable ==
    [][ /\ CostAdded
        /\ ReadsSkyRecord =>
              \A name \in DOMAIN sky_customers' :
                  sky_customers'[name].total_calls = 1 =>
                      sky_customers'[name].total_cost
                          = billable_cost(sky_customers'[name]) ]_vars

\* a customer with a record of the secondary stream and a cost from the
\* primary stream on top of it
C13_Witness ==
    /\ pc = "sky_agg" /\ row.kind = "record"
    /\ customer \in DOMAIN sky_customers
    /\ sky_customers[customer].total_calls = 1
    /\ sky_customers[customer].total_cost = RatedCost(row.Seconds)
    /\ sky_customers[customer].total_cost.m > 0
    /\ customers[customer].total_calls = 2
    /\ customers[customer].total_cost # sky_customers[customer].total_cost

(***************************************************************************)
(* C14: the phone-count aggregator                                         *)
(***************************************************************************)
\* the phone-count report is reading the inventory or has read it
CountingPhones == pc = "phones" \/ "phones.csv" \in DOMAIN written

\* the non-billable-treatment rule
NonBillable(entry) ==
    LET treatment == Strip(entry.Treatment)
    IN  \/ treatment \in NON_BILLABLE_TREATMENTS
        \/ Contains(Lower(treatment), <<"f","a","x">>)
        \/ Contains(Lower(treatment), <<"h","o","l","d">>)

\* the entries read so far that belong to a customer name and are, or are
\* not, non-billable
EntriesOf(name, non_billable) ==
    { i \in 1..Len(inventory) :
        /\ get_customer_name(inventory[i].Domain) = name
        /\ NonBillable(inventory[i]) = non_billable }

\* the counts a dict of counts holds for the names that have entries
CountsAre(counts, non_billable) ==
    /\ DOMAIN counts =
          { get_customer_name(inventory[i].Domain) :
              i \in { k \in 1..Len(inventory) :
                        NonBillable(inventory[k]) = non_billable } }
    /\ \A name \in DOMAIN counts :
          counts[name] = Cardinality(EntriesOf(name, non_billable))

RECURSIVE SumOf(_)
SumOf(counts) ==
    IF DOMAIN counts = {} THEN 0
    ELSE LET k == CHOOSE x \in DOMAIN counts : TRUE
         IN  counts[k] + SumOf([x \in DOMAIN counts \ {k} |-> counts[x]])

\* C14: after any sequence of inventory entries, each entry is counted once,
\* under the customer name of its domain, in the excluded counts when its
\* trimmed treatment is in the non-billable set or holds "fax" or "hold" in
\* lower case, in the billable counts otherwise; the counts add up to the
\* number of entries and the excluded rows are the excluded entries.
C14_CountedOnce ==
    CountingPhones =>
        /\ CountsAre(billable_counts, FALSE)
        /\ CountsAre(excluded_counts, TRUE)
        /\ SumOf(billable_counts) + SumOf(excluded_counts) = Len(inventory)
        /\ excluded_rows = SelectSeq(inventory, NonBillable)

\* three entries read: vFaxSFATA with blanks around it, a treatment that
\* only holds the keyword, and a billable one
C14_Witness ==
    /\ pc = "phones" /\ n = 3
    /\ Len(excluded_rows) = 2
    /\ Strip(excluded_rows[1].Treatment) \in NON_BILLABLE_TREATMENTS
    /\ excluded_rows[1].Treatment # Strip(excluded_rows[1].Treatment)
    /\ Strip(excluded_rows[2].Treatment) \notin NON_BILLABLE_TREATMENTS
    /\ SumOf(billable_counts) = 1

(***************************************************************************)
(* C15: the SMS accumulators                                               *)
(***************************************************************************)
\* the SMS report is reading its rows or has read them
CountingMessages == pc = "sms" \/ "sms.csv" \in DOMAIN written

\* the sum of a field over the per-customer accumulators
RECURSIVE MessagesOver(_, _)
MessagesOver(cust, field) ==
    IF DOMAIN cust = {} THEN 0
    ELSE LET k == CHOOSE x \in DOMAIN cust : TRUE
         IN  cust[k][field]
               + MessagesOver([x \in DOMAIN cust \ {k} |-> cust[x]], field)

\* the sums of the costs of the per-customer accumulators, added up in the
\* order of keys
RECURSIVE CostOver(_, _)
CostOver(cust, keys) ==
    IF keys = <<>> THEN FZero
    ELSE FAdd(CostOver(cust, SubSeq(keys, 1, Len(keys) - 1)),
              cust[keys[Len(keys)]].total_cost)

\* the orders in which the customers can be added up
Orders(cust) ==
    { keys \in [1..Cardinality(DOMAIN cust) -> DOMAIN cust] :
        \A i, j \in DOMAIN keys : i # j => keys[i] # keys[j] }

\* what C15 says of the message counts: every accumulator splits its total
\* into incoming and outgoing, the overall counts are the sums of the
\* customers' counts, and a row is incoming exactly when its direction is
\* "incoming" in lower case
MessagesAddUp ==
    /\ \A name \in DOMAIN sms_customers :
          sms_customers[name].total_messages
              = sms_customers[name].incoming_messages
                  + sms_customers[name].outgoing_messages
    /\ overall.total_messages
          = overall.incoming_messages + overall.outgoing_messages
    /\ \A field \in {"total_messages", "incoming_messages",
                      "outgoing_messages"} :
          overall[field] = MessagesOver(sms_customers, field)

DirectionCounted ==
    (pc = "sms" /\ n' = n + 1) =>
        /\ overall'.incoming_messages - overall.incoming_messages
              = IF Lower(row'.msgDirection) = Incoming THEN 1 ELSE 0
        /\ overall'.outgoing_messages - overall.outgoing_messages
              = IF Lower(row'.msgDirection) = Incoming THEN 0 ELSE 1

\* C15 as stated: besides, the overall cost is the sum of the customers'
\* costs, in whatever order they are added up.
C15_OverallIsSum ==
    [][ /\ DirectionCounted
        /\ CountingMessages' =>
              /\ MessagesAddUp'
              /\ \E keys \in Orders(sms_customers') :
                    overall'.total_cost = CostOver(sms_customers', keys) ]_vars

\* C15 amended: besides, the overall cost is the sum of the customers' costs
\* when every cost read so far was a whole number.
C15_WholeOverallIsSum ==
    [][ /\ DirectionCounted
        /\ CountingMessages' =>
              /\ MessagesAddUp'
              /\ whole' =>
                    \A keys \in Orders(sms_customers') :
                        overall'.total_cost = CostOver(sms_customers', keys) ]_vars

\* three messages for two customers, incoming in mixed case among them, and
\* a cost above zero
C15_Witness ==
    /\ pc = "sms" /\ n = 3
    /\ Cardinality(DOMAIN sms_customers) = 2
    /\ overall.incoming_messages = 2
    /\ overall.outgoing_messages = 1
    /\ whole
    /\ overall.total_cost.m > 0
    /\ row.msgDirection # Incoming /\ Lower(row.msgDirection) = Incoming

(***************************************************************************)
(* C18: a missing required input                                           *)
(***************************************************************************)
\* nothing has been loaded, aggregated or created
NothingDone ==
    /\ phone_mapping = [k \in {} |-> <<>>]
    /\ inventory = <<>>
    /\ cdr_customers = EmptyCustomers
    /\ customers = EmptyCustomers
    /\ sky_customers = EmptyCustomers
    /\ skyswitch_records = <<>>
    /\ sms_customers = EmptySMSCustomers
    /\ overall = DefaultSMSStats
    /\ billable_counts = [k \in {} |-> 0]
    /\ excluded_counts = [k \in {} |-> 0]
    /\ excluded_rows = <<>>
    /\ seat_customers = EmptySeats
    /\ n = 0
    /\ ~output_dir
    /\ DOMAIN written = {}

\* C18: when the CDR file or the phone-inventory file is missing, the run
\* gets no further than main's exit, and at the exit no phone mapping has
\* been loaded, nothing has been aggregated and neither the output directory
\* nor an output file has been created.
C18_MissingInputIsFatal ==
    /\ files # RequiredInputs => pc \in {"main", "exit"} /\ NothingDone
    /\ pc = "exit" => files # RequiredInputs /\ NothingDone

\* the run has ended at the second check: the CDR file is there, the phone
\* inventory is not
C18_Witness ==
    /\ pc = "exit"
    /\ "cdr_file" \in files
    /\ "phonenumbers_file" \notin files
    /\ ~output_dir

(***************************************************************************)
(* C19: output is written after the input has been read                    *)
(***************************************************************************)
\* the positions of the run at which a report's input is being read and
\* accumulated
ReadingFor(file) ==
    CASE file = "cdr.csv" -> {"cdr"}
      [] file = "cdr_combined.csv" -> {"cdr", "sky_extract", "sky_agg"}
      [] file \in {"phones.csv", "phones_excl.csv"} -> {"phones"}
      [] file = "sms.csv" -> {"sms"}
      [] file = "seats.csv" -> {"seats"}

\* the output files of the report that was reading a row of this kind
OutputsOf(kind) ==
    CASE kind = "cdr" -> {"cdr.csv", "cdr_combined.csv"}
      [] kind = "sheet" -> {"cdr_combined.csv"}
      [] kind = "seat" -> {"seats.csv"}
      [] OTHER -> {}

\* a step that writes a file reads no row, changes no accumulator and does
\* not fail
WritesAfterReading ==
    written' # written =>
        /\ \A file \in DOMAIN written' :
              (file \notin DOMAIN written \/ written'[file] # written[file])
                  => pc \in ReadingFor(file) /\ pc' \notin ReadingFor(file)
        /\ row' = NoRow
        /\ pc' # "raised"
        /\ UNCHANGED << accumulators, phone_report, seat_customers,
                        skyswitch_records, insertion >>

\* while a report reads its input, and after a failure of its reading, its
\* output file does not exist
NoPartialOutput ==
    /\ \A file \in DOMAIN written : pc \notin ReadingFor(file)
    /\ pc = "raised" => DOMAIN written \cap OutputsOf(row.kind) = {}

\* C19: each report's output file is written only after that report's input
\* has been read and accumulated to the end, and a failure while reading
\* leaves no output file of that report.
C19_WrittenAfterInput ==
    [][WritesAfterReading /\ NoPartialOutput']_vars

\* the CDR report fails on its second row, after it has accumulated the
\* first, and there is no cdr.csv
C19_Witness ==
    /\ pc = "raised"
    /\ row.kind = "cdr"
    /\ n = 2
    /\ DOMAIN cdr_customers # {}
    /\ "cdr.csv" \notin DOMAIN written

(***************************************************************************)
(* C20: the order of the ranked outputs                                    *)
(***************************************************************************)
RankedOutputs == {"cdr.csv", "cdr_combined.csv", "sms.csv", "phones.csv",
                  "seats.csv"}

\* the primary magnitude of a row of a ranked output is smaller than that of
\* another
Smaller(file, a, b) ==
    CASE file \in {"cdr.csv", "cdr_combined.csv"} ->
            FLess(a.stats.total_seconds, b.stats.total_seconds)
      [] file = "sms.csv" -> a.stats.total_messages < b.stats.total_messages
      [] file = "phones.csv" -> a.stats < b.stats
      [] file = "seats.csv" -> a.stats.pbx_users < b.stats.pbx_users

\* the names of the customers of a ranked output in the order in which the
\* report first counted a row for them
FirstCounted(file) ==
    CASE file = "cdr.csv" -> insertion.cdr_customers
      [] file = "cdr_combined.csv" -> insertion.customers
      [] file = "sms.csv" -> insertion.sms_customers
      [] file = "phones.csv" -> insertion.billable_counts
      [] file = "seats.csv" -> insertion.seat_customers

\* the position of the first row of the phone inventory that names a customer
FirstEncountered(name) ==
    CHOOSE i \in 1..Len(inventory) :
        /\ get_customer_name(inventory[i].Domain) = name
        /\ \A j \in 1..(i - 1) : get_customer_name(inventory[j].Domain) # name

PositionIn(keys, name) == CHOOSE i \in 1..Len(keys) : keys[i] = name

\* the rows of a file are in descending order of magnitude
Descending(file) ==
    \A i, j \in 1..Len(written[file]) :
        i < j => ~Smaller(file, written[file][i], written[file][j])

\* rows of equal magnitude are in the order in which they were first counted
TiesAsCounted(file) ==
    \A i, j \in 1..Len(written[file]) :
        (/\ i < j
         /\ ~Smaller(file, written[file][j], written[file][i])) =>
            PositionIn(FirstCounted(file), written[file][i].name)
                < PositionIn(FirstCounted(file), written[file][j].name)

\* C20 as stated, for the phone-count report, whose input the run has kept:
\* the rows are in descending order of the phone count, and rows of equal
\* count are in the order in which the inventory first names their customers.
C20_TiesAsEncountered ==
    "phones.csv" \in DOMAIN written =>
        /\ Descending("phones.csv")
        /\ \A i, j \in 1..Len(written["phones.csv"]) :
              (/\ i < j
               /\ written["phones.csv"][i].stats
                     = written["phones.csv"][j].stats) =>
                  FirstEncountered(written["phones.csv"][i].name)
                      < FirstEncountered(written["phones.csv"][j].name)

\* C20 amended: every ranked output lists each customer of its report once,
\* in descending order of the report's magnitude, and rows of equal
\* magnitude in the order in which the report first counted a row for their
\* customers.
C20_TiesAsCounted ==
    \A file \in DOMAIN written \cap RankedOutputs :
        /\ Len(written[file]) = Len(FirstCounted(file))
        /\ \A k \in 1..Len(FirstCounted(file)) :
              \E i \in 1..Len(written[file]) :
                  written[file][i].name = FirstCounted(file)[k]
        /\ Descending(file)
        /\ TiesAsCounted(file)

\* cdr.csv with two customers of the same number of seconds, and seats.csv
\* or phones.csv with a row of greater magnitude counted last and listed
\* first
C20_Witness ==
    \/ /\ "cdr.csv" \in DOMAIN written
       /\ Len(written["cdr.csv"]) = 2
       /\ written["cdr.csv"][1].stats.total_seconds
             = written["cdr.csv"][2].stats.total_seconds
       /\ written["cdr.csv"][1].stats.total_seconds # FZero
       /\ pc = "sky_extract"
    \/ /\ "seats.csv" \in DOMAIN written
       /\ Len(written["seats.csv"]) = 3
       /\ written["seats.csv"][1].name = insertion.seat_customers[3]
       /\ written["seats.csv"][2].stats.pbx_users
             = written["seats.csv"][3].stats.pbx_users

(***************************************************************************)
(* C21: shared-string references out of range                              *)
(***************************************************************************)
\* the last cell of a row in a column, as the dict row_data keeps it
ColumnCell(cells, col) ==
    IF \E i \in DOMAIN cells : ColumnOf(cells[i].ref) = col
    THEN cells[CHOOSE i \in DOMAIN cells :
                  /\ ColumnOf(cells[i].ref) = col
                  /\ \A j \in DOMAIN cells :
                        ColumnOf(cells[j].ref) = col => j <= i]
    ELSE Cell(col, "", PyNone)

\* the value of a cell as C21 has it: the string at the position for a
\* shared-string reference to a position of the list, the raw value otherwise
ReferenceValue(cell, strings) ==
    LET val == TextOrEmpty(cell.v)
    IN  IF /\ cell.t = "s" /\ val # <<>> /\ ParseInt(val).ok
           /\ ParseInt(val).val \in 0..(Len(strings) - 1)
        THEN strings[ParseInt(val).val + 1]
        ELSE val

\* the rows of a sheet of calls that are no header and have a duration
CallRows(sheet) ==
    SelectSeq(sheet, LAMBDA rw : /\ ParseInt(rw.r).val # 1
                                 /\ ~NoDuration(DurationCell(rw.cells)))

\* the sheet the department pivot reads
UserExport ==
    IF adams_sheet_found(workbook, read_shared_strings(workbook), ADAMS_SHEET)
    THEN workbook.sheets[ADAMS_SHEET]
    ELSE IF adams_sheet_found(workbook, read_shared_strings(workbook),
                              ADAMS_SHEET_FALLBACK)
    THEN workbook.sheets[ADAMS_SHEET_FALLBACK]
    ELSE <<>>

\* C21 as stated: the call-detail extraction and the department pivot do not
\* raise on a sheet whose references are integers, and the customer of every
\* record and the departments of the pivot are those of the cells' values
\* with a reference out of range kept as it is written.
C21_OutOfRangeKept ==
    LET strings == read_shared_strings(workbook)
    IN  /\ (reader = "extract_skyswitch_cdr"
              /\ HasSheet(workbook, SKYSWITCH_SHEET)) =>
             LET calls == CallRows(workbook.sheets[SKYSWITCH_SHEET])
             IN  /\ ~returned.raised
                 /\ Len(returned.records) = Len(calls)
                 /\ \A k \in DOMAIN calls :
                       returned.records[k].Customer
                           = get_customer_name(
                                 ReferenceValue(ColumnCell(calls[k].cells, <<"J">>),
                                                strings))
        /\ reader = "generate_adams_county_report" =>
             /\ ~returned.raised
             /\ DOMAIN returned.pivot
                   = { Strip(ReferenceValue(ColumnCell(UserExport[i].cells, <<"I">>),
                                            strings)) :
                         i \in 2..Len(UserExport) } \ {<<>>}

\* a reference to the first position after the list is kept as it is
\* written, and it names the customer of the record
C21_Witness ==
    /\ reader = "extract_skyswitch_cdr"
    /\ workbook.shared.state = "ok"
    /\ HasSheet(workbook, SKYSWITCH_SHEET)
    /\ Len(workbook.sheets[SKYSWITCH_SHEET]) = 2
    /\ ColumnCell(workbook.sheets[SKYSWITCH_SHEET][2].cells, <<"J">>).t = "s"
    /\ ColumnCell(workbook.sheets[SKYSWITCH_SHEET][2].cells, <<"J">>).v
          = <<"1","1">>
    /\ ~returned.raised
    /\ Len(returned.records) = 1
    /\ returned.records[1].Customer = <<"1","1">>

(***************************************************************************)
(* C22: inline and shared strings                                          *)
(***************************************************************************)
\* the same logical table with every shared string written as inline text
InlinedWorkbook ==
    LET strings == read_shared_strings(workbook)
        Inlined(c) ==
            IF ReferenceValue(c, strings) # TextOrEmpty(c.v)
            THEN InlineCell(c.ref, ReferenceValue(c, strings))
            ELSE c
    IN  [workbook EXCEPT !.sheets =
            [s \in DOMAIN workbook.sheets |->
                [i \in DOMAIN workbook.sheets[s] |->
                    [workbook.sheets[s][i] EXCEPT !.cells =
                        [j \in DOMAIN workbook.sheets[s][i].cells |->
                            Inlined(workbook.sheets[s][i].cells[j])]]]]]

\* C22 as stated: each reader returns for a workbook what it returns for the
\* same tables with the shared strings written inline.
C22_InlineOrShared ==
    /\ reader = "extract_skyswitch_cdr"
          => returned = extract_skyswitch_cdr(InlinedWorkbook)
    /\ reader = "generate_seat_count_report"
          => returned = generate_seat_count_report(InlinedWorkbook)
    /\ reader = "generate_adams_county_report"
          => returned = generate_adams_county_report(InlinedWorkbook)

\* the seat reader took the domain of a row from an inline string
C22_Witness ==
    /\ reader = "generate_seat_count_report"
    /\ HasSheet(workbook, SEAT_SHEET)
    /\ workbook.sheets[SEAT_SHEET] = SeatSheet
    /\ ~returned.raised
    /\ DOMAIN returned.customers = {get_customer_name(DomainA)}
    /\ returned.customers[get_customer_name(DomainA)].domain = DomainA

(***************************************************************************)
(* C23: the header is the row of index 1                                   *)
(***************************************************************************)
\* the rows of a sheet whose index is not 1, in the order of the sheet
DataRows(sheet) == SelectSeq(sheet, LAMBDA rw : ParseInt(rw.r).val # 1)

\* the domains of the rows of a sheet of domain statistics that name one
CountedDomains(sheet) ==
    { inline_cell_value(ColumnCell(DataRows(sheet)[i].cells, <<"A">>)).val :
        i \in DOMAIN DataRows(sheet) } \ {<<>>, Total}

\* C23 as stated: a reader that returns has emitted or counted the rows of
\* every index but 1 and only them, wherever they stand in the sheet.
C23_HeaderIsRowOne ==
    ~returned.raised =>
        /\ (reader = "extract_skyswitch_cdr") =>
              Len(returned.records)
                  = Len(CallRows(workbook.sheets[SKYSWITCH_SHEET]))
        /\ (reader = "generate_seat_count_report") =>
              DOMAIN returned.customers
                  = { get_customer_name(d) :
                        d \in CountedDomains(workbook.sheets[SEAT_SHEET]) }
        /\ (reader = "generate_adams_county_report") =>
              returned.pivot
                  = adams_pivot_rows(DataRows(UserExport),
                                     read_shared_strings(workbook),
                                     EmptyPivot).pivot

\* the call stands before the header in the sheet: the call is emitted and
\* the header is not
C23_Witness ==
    /\ reader = "extract_skyswitch_cdr"
    /\ HasSheet(workbook, SKYSWITCH_SHEET)
    /\ Len(workbook.sheets[SKYSWITCH_SHEET]) = 2
    /\ workbook.sheets[SKYSWITCH_SHEET][1].r = <<"2">>
    /\ workbook.sheets[SKYSWITCH_SHEET][2].r = <<"1">>
    /\ ~returned.raised
    /\ Len(returned.records) = 1

(***************************************************************************)
(* C24: the keys of the result                                             *)
(***************************************************************************)
\* every key of the accumulators is the name of a customer with a call
KeysAreCustomers(cust) ==
    \A k \in DOMAIN cust :
        /\ cust[k].total_calls >= 1
        /\ k # <<>>
        /\ cust[k].name = k

\* C24: every key of the result of the CDR aggregator and of the combined
\* aggregator has total_calls >= 1, is a non-empty string, and is the name
\* field of its accumulator.
C24_KeysAreCustomers ==
    /\ KeysAreCustomers(cdr_customers)
    /\ KeysAreCustomers(customers)

\* the combined aggregator holds a customer named by the mapping and the
\* customer of unmapped calls
C24_Witness ==
    /\ pc = "done"
    /\ Unassigned \in DOMAIN customers
    /\ \E k \in DOMAIN customers : k # Unassigned /\ customers[k].total_calls >= 1
    /\ DOMAIN cdr_customers # {}

(***************************************************************************)
(* C25: the summary of the department pivot                                *)
(***************************************************************************)
VmOnly == <<"v","m"," ","o","n","l","y">>

\* the number of users of a type the pivot counts over a set of departments
RECURSIVE UsersOfType(_, _, _)
UsersOfType(pivot, depts, ut) ==
    IF depts = {} THEN 0
    ELSE LET d == CHOOSE d \in depts : TRUE
         IN  (IF ut \in DOMAIN pivot[d] THEN pivot[d][ut] ELSE 0)
                 + UsersOfType(pivot, depts \ {d}, ut)

ReportWritten ==
    /\ reader = "generate_adams_county_report"
    /\ ~returned.raised
    /\ returned.report.written

\* C25: in the written pivot the billable count is the grand total of 'u'
\* plus that of 'vm only', the active count is the grand totals of 'u', 'nu'
\* and 'vm only', the grand total of each user type is the sum of its counts
\* over the departments, and billable <= active <= overall grand total.
C25_SummaryCounts ==
    ReportWritten =>
        LET report == returned.report
            total == report.grand_totals
        IN  /\ report.billable_users = total[<<"u">>] + total[VmOnly]
            /\ report.active_users
                  = total[<<"u">>] + total[<<"n","u">>] + total[VmOnly]
            /\ \A ut \in DOMAIN total :
                  total[ut] = UsersOfType(returned.pivot, DOMAIN returned.pivot, ut)
            /\ report.billable_users <= report.active_users
            /\ report.active_users <= report.overall_total

\* users of three listed types in two departments: three of the four are
\* billable and all four are active
C25_Witness ==
    /\ ReportWritten
    /\ Cardinality(DOMAIN returned.pivot) = 2
    /\ returned.report.grand_totals[<<"u">>] = 2
    /\ returned.report.grand_totals[<<"n","u">>] = 1
    /\ returned.report.grand_totals[VmOnly] = 1
    /\ returned.report.billable_users = 3
    /\ returned.report.active_users = 4
    /\ returned.report.overall_total = 4

(***************************************************************************)
(* C26: the two classifiers                                                *)
(***************************************************************************)
\* C26: call_ratio.classify_call and billing_reports.classify_call give the
\* same jurisdiction for every pair of raw phone strings.
C26_ClassifiersAgree == pc = "classified" => ratio_call_type = call_type

\* both classifiers took the area code after the leading 1 of a formatted
\* number of 11 digits and after the first digits of a number of 12
C26_Witness ==
    /\ pc = "classified"
    /\ row.kind = "call"
    /\ row.Source = <<"+","1"," ","2","0","2","-","5","5","5","-","1","2","3","4">>
    /\ row.Destination = <<"1","3","1","0","5","5","5","1","2","3","4","9">>
    /\ call_type = "unknown"
    /\ ratio_call_type = "unknown"

(***************************************************************************)
(* C27: the phone numbers of a customer                                    *)
(***************************************************************************)
\* every phone number of the accumulators is a key of the mapping that the
\* mapping gives to the customer of the accumulator
PhonesAreOwn(cust) ==
    \A k \in DOMAIN cust :
        \A phone \in cust[k].phone_numbers :
            /\ phone \in DOMAIN phone_mapping
            /\ phone_mapping[phone] = k

C27_PhonesAreMapped ==
    \A k \in DOMAIN cdr_customers :
        cdr_customers[k].phone_numbers \subseteq DOMAIN phone_mapping

AcceptedSeatRows(sheet) ==
    SelectSeq(DataRows(sheet),
              LAMBDA rw :
                  LET row_data == inline_row_data(rw.cells, EmptyRowData)
                  IN  /\ CellGet(row_data, <<"A">>, <<>>) \notin {<<>>, Total}
                      /\ \A i \in DOMAIN SeatColumns :
                            IntOrZero(row_data, SeatColumns[i]).ok)

\* the sum of the PBX-user column over rows
RECURSIVE PbxUsersOfRows(_)
PbxUsersOfRows(rows) ==
    IF rows = <<>> THEN 0
    ELSE IntOrZero(inline_row_data(Head(rows).cells, EmptyRowData), <<"B">>).val
             + PbxUsersOfRows(Tail(rows))

\* the sum of the PBX-user seats over the customers of a result
RECURSIVE PbxUsersOfCustomers(_, _)
PbxUsersOfCustomers(cust, names) ==
    IF names = {} THEN 0
    ELSE LET k == CHOOSE k \in names : TRUE
         IN  cust[k].pbx_users + PbxUsersOfCustomers(cust, names \ {k})

SeatsCounted ==
    /\ reader = "generate_seat_count_report"
    /\ ~returned.raised

\* C28 as stated: the PBX-user seats of the customers of the result add up
\* to the PBX-user column of the accepted rows, also when several domains
\* have the same first segment.
C28_SeatsAddUp ==
    SeatsCounted =>
        PbxUsersOfCustomers(returned.customers, DOMAIN returned.customers)
            = PbxUsersOfRows(AcceptedSeatRows(workbook.sheets[SEAT_SHEET]))

\* C28 for sheets on which no two accepted rows name the same customer
C28_SeatsAddUpPerCustomer ==
    (/\ SeatsCounted
     /\ LET rows == AcceptedSeatRows(workbook.sheets[SEAT_SHEET])
            Name(i) == get_customer_name(
                           inline_cell_value(ColumnCell(rows[i].cells, <<"A">>)).val)
        IN  \A i, j \in DOMAIN rows : Name(i) = Name(j) => i = j)
        => PbxUsersOfCustomers(returned.customers, DOMAIN returned.customers)
              = PbxUsersOfRows(AcceptedSeatRows(workbook.sheets[SEAT_SHEET]))

\* one domain of a customer with three seats: the result holds them
C28_Witness ==
    /\ SeatsCounted
    /\ Len(AcceptedSeatRows(workbook.sheets[SEAT_SHEET])) = 1
    /\ DOMAIN returned.customers = {get_customer_name(DomainA)}
    /\ returned.customers[get_customer_name(DomainA)].pbx_users = 3

(***************************************************************************)
(* C29: the grand totals of the department pivot                           *)
(***************************************************************************)
\* the department of a row of the user export
DepartmentOf(rw) ==
    Strip(shared_cell_value(ColumnCell(rw.cells, <<"I">>),
                            read_shared_strings(workbook)).val)

\* the rows after the header of the user export that name a department
UsersOfDepartments ==
    SelectSeq(Tail(UserExport), LAMBDA rw : DepartmentOf(rw) # <<>>)

C29_GrandTotalsCountListed ==
    (/\ ReportWritten
     /\ \A dept \in DOMAIN returned.pivot :
           DOMAIN returned.pivot[dept] \subseteq DOMAIN returned.report.grand_totals)
        => /\ \A dept \in DOMAIN returned.report.rows :
                 returned.report.rows[dept].row_total
                     = Cardinality({ i \in DOMAIN UsersOfDepartments :
                                       DepartmentOf(UsersOfDepartments[i]) = dept })
           /\ returned.report.overall_total = Len(UsersOfDepartments)

InFileOrder == generate_cdr_report(row.rows, phone_mapping, EmptyCustomers).customers

SameCalls(a, b) ==
    /\ a.total_calls = b.total_calls
    /\ \A j \in CallTypes : BucketCalls(a, j) = BucketCalls(b, j)
    /\ a.phone_numbers = b.phone_numbers

SameSeconds(a, b) ==
    /\ a.total_seconds = b.total_seconds
    /\ \A j \in CallTypes : BucketSeconds(a, j) = BucketSeconds(b, j)

\* every duration of the file is a whole number of seconds
WholeDurations ==
    \A i \in DOMAIN row.rows : IsWhole(FloatOrZero(row.rows[i].Seconds).val)

\* C30 as stated: whatever the order in which the rows were read, every
\* customer has the call counts, the seconds (total and per jurisdiction)
\* and the phone numbers it has for the order of the file.
C30_OrderIrrelevant ==
    pc = "read" =>
        /\ DOMAIN cdr_customers = DOMAIN InFileOrder
        /\ \A k \in DOMAIN cdr_customers :
              /\ SameCalls(cdr_customers[k], InFileOrder[k])
              /\ SameSeconds(cdr_customers[k], InFileOrder[k])

\* C30 amended: the customers, their call counts and their phone numbers do
\* not depend on the order of the rows, and neither do their seconds when
\* every duration is a whole number.
C30_WholeOrderIrrelevant ==
    pc = "read" =>
        /\ DOMAIN cdr_customers = DOMAIN InFileOrder
        /\ \A k \in DOMAIN cdr_customers :
              /\ SameCalls(cdr_customers[k], InFileOrder[k])
              /\ WholeDurations => SameSeconds(cdr_customers[k], InFileOrder[k])

\* three calls of two customers were read in another order than the file's
C30_Witness ==
    /\ pc = "read"
    /\ Len(row.rows) = 3
    /\ row.read # row.rows
    /\ WholeDurations
    /\ Cardinality(DOMAIN cdr_customers) = 2
    /\ \E k \in DOMAIN cdr_customers :
          /\ cdr_customers[k].total_calls = 2
          /\ cdr_customers[k].total_seconds = FloatOfInt(14)
          /\ Cardinality(cdr_customers[k].phone_numbers) = 2

====
